---- MODULE Spec2Model ----
(***************************************************************************)
(* bq-guard: query guard and estimation pipeline.                          *)
(*                                                                         *)
(* Texts (SQL, table names, column names, summary lines) are sequences of  *)
(* one-character strings, so that the regular expressions of the source    *)
(* are computed character by character.  An Optional[...] of the source is *)
(* a sequence of length at most one: <<>> is None, <<v>> is the value v.   *)
(***************************************************************************)
EXTENDS Integers, Sequences, FiniteSets, TLC

(***************************************************************************)
(* Bounds of the model.                                                    *)
(***************************************************************************)
MaxFrags == 2
MaxRefs == 2
MaxTasks == 3
MaxPieces == 3

VARIABLES
  revision,        \* BqGuardApp._revision
  editorText,      \* BqGuardApp._editor.text
  config,          \* BqGuardApp.config
  defaultProject,  \* BqGuardApp._default_project
  defaultLocation, \* BqGuardApp._default_location
  estimateTask,    \* BqGuardApp._estimate_task: an index of tasks, 0 when it is
                   \* None or a task that has ended
  tasks,           \* the asyncio tasks of the app that have not ended, or whose
                   \* worker thread has not, in creation order
  created,         \* history: the number of tasks created so far
  lastDryRun,      \* BqGuardApp._last_dry_run
  cacheTables,     \* TableMetaCache.tables
  cacheFile,       \* the state of the file table_meta_cache.json
  history,         \* the records of history.jsonl
  screens,         \* the stack of ReviewModal screens pushed by _review_flow
  lastJob,         \* BqGuardApp._last_job
  publishedRev,    \* history: the revision captured by the run that wrote lastDryRun
  call             \* a pure function of the policy engine applied to drawn inputs

vars == <<revision, editorText, config, defaultProject, defaultLocation, estimateTask,
          tasks, created, lastDryRun, cacheTables, cacheFile, history, screens, lastJob,
          publishedRev, call>>

appVars == <<revision, editorText, config, defaultProject, defaultLocation, estimateTask,
             tasks, created, lastDryRun, cacheTables, cacheFile, history, screens, lastJob,
             publishedRev>>

(***************************************************************************)
(* Characters.                                                             *)
(***************************************************************************)
UpperLetters ==
  <<"A", "B", "C", "D", "E", "F", "G", "H", "I", "J", "K", "L", "M",
    "N", "O", "P", "Q", "R", "S", "T", "U", "V", "W", "X", "Y", "Z">>

LowerLetters ==
  <<"a", "b", "c", "d", "e", "f", "g", "h", "i", "j", "k", "l", "m",
    "n", "o", "p", "q", "r", "s", "t", "u", "v", "w", "x", "y", "z">>

Digits == {"0", "1", "2", "3", "4", "5", "6", "7", "8", "9"}

SeqRange(s) == {s[i] : i \in DOMAIN s}

\* \w of the re module, on the characters the model uses
WordChars == SeqRange(UpperLetters) \cup SeqRange(LowerLetters) \cup Digits \cup {"_"}

IsWordChar(c) == c \in WordChars

\* the lower-case form of each upper-case letter
LowerOfUpper ==
  [c \in SeqRange(UpperLetters) |->
     LowerLetters[CHOOSE i \in DOMAIN UpperLetters : UpperLetters[i] = c]]

\* re.IGNORECASE compares characters by their case-folded form
Lower(c) == IF c \in DOMAIN LowerOfUpper THEN LowerOfUpper[c] ELSE c

\* \b of the re module at offset p of s (p characters precede the position)
WordBoundary(s, p) ==
  LET before == p >= 1 /\ p <= Len(s) /\ IsWordChar(s[p])
      after == p + 1 >= 1 /\ p + 1 <= Len(s) /\ IsWordChar(s[p + 1])
  IN before # after

\* the literal text lit occurs in s at offset p, ignoring case
MatchesAtIgnoreCase(s, p, lit) ==
  /\ p + Len(lit) <= Len(s)
  /\ \A j \in 1..Len(lit) : Lower(s[p + j]) = Lower(lit[j])

(***************************************************************************)
(* policy/types.py                                                         *)
(***************************************************************************)
Severity == {"ERROR", "WARN", "INFO"}

Finding(severity, code, message, evidence, table) ==
  [severity |-> severity, code |-> code, message |-> message,
   evidence |-> evidence, table |-> table]

(***************************************************************************)
(* cache.py: TableMeta                                                     *)
(***************************************************************************)
TableMeta(partition_type, partition_key, ingestion_time, last_seen_ts) ==
  [partition_type |-> partition_type, partition_key |-> partition_key,
   ingestion_time |-> ingestion_time, last_seen_ts |-> last_seen_ts]

\* dict.get(key): None when the key is absent
DictGet(d, k) == IF k \in DOMAIN d THEN <<d[k]>> ELSE <<>>

\* d[k] = v on a dict
DictPut(d, k, v) == [x \in (DOMAIN d) \cup {k} |-> IF x = k THEN v ELSE d[x]]

(***************************************************************************)
(* cache.py: TableMetaCache.save and TableMetaCache.load.  The file is     *)
(* held as the JSON value that json.dumps writes and json.loads reads: a   *)
(* value carries its JSON type, an object its members in file order.  A    *)
(* JSON string holds a word (partition_type, last_seen_ts) or a text, a    *)
(* sequence of characters (partition_key).                                 *)
(***************************************************************************)
JsonNull == [t |-> "null"]
JsonString(s) == [t |-> "string", word |-> s]
JsonText(s) == [t |-> "string", text |-> s]
JsonBool(b) == [t |-> "bool", bool |-> b]
JsonInt(n) == [t |-> "int", int |-> n]
JsonArray(items) == [t |-> "array", items |-> items]
JsonObject(members) == [t |-> "object", members |-> members]
Member(k, v) == [key |-> k, value |-> v]

\* the Python value of a parsed JSON string
StringOf(value) == IF "text" \in DOMAIN value THEN value.text ELSE value.word

\* dict.get(key, default) on a parsed JSON object
JsonGet(object, key, default) ==
  LET at == {i \in DOMAIN object.members : object.members[i].key = key}
  IN IF at = {} THEN default ELSE object.members[CHOOSE i \in at : TRUE].value

\* a save() that leaves last_seen_ts out of the file
SavedEntryNoTimestamp(meta) ==
  JsonObject(<<Member("partition_type", JsonString(meta.partition_type)),
               Member("partition_key",
                      IF meta.partition_key = <<>> THEN JsonNull
                      ELSE JsonText(meta.partition_key[1])),
               Member("ingestion_time", JsonBool(meta.ingestion_time))>>)

\* save, lines 49-54: one table's descriptor as json.dumps writes it; None
\* becomes null
SavedEntry(meta) ==
  JsonObject(<<Member("partition_type", JsonString(meta.partition_type)),
               Member("partition_key",
                      IF meta.partition_key = <<>> THEN JsonNull
                      ELSE JsonText(meta.partition_key[1])),
               Member("ingestion_time", JsonBool(meta.ingestion_time)),
               Member("last_seen_ts", JsonString(meta.last_seen_ts))>>)

\* save, lines 48-56: the members of "tables", one per key of the map
RECURSIVE SavedTables(_)
SavedTables(tables) ==
  IF DOMAIN tables = {} THEN <<>>
  ELSE LET key == CHOOSE k \in DOMAIN tables : TRUE
       IN <<Member(key, SavedEntry(tables[key]))>>
          \o SavedTables([x \in DOMAIN tables \ {key} |-> tables[x]])

\* save, lines 45-58: the content of the file
CacheSave(tables, schema_version) ==
  JsonObject(<<Member("schema_version", JsonInt(schema_version)),
               Member("tables", JsonObject(SavedTables(tables)))>>)

\* bool(x) of a parsed JSON value
Truthy(value) ==
  CASE value.t = "null" -> FALSE
    [] value.t = "bool" -> value.bool
    [] value.t = "int" -> value.int # 0
    [] value.t = "string" -> IF "text" \in DOMAIN value THEN value.text # <<>>
                             ELSE value.word # ""
    [] value.t = "array" -> value.items # <<>>
    [] value.t = "object" -> value.members # <<>>

\* load, lines 38-43: the descriptor built from one member of "tables"; a
\* member that is no object has no get()
LoadedEntry(value) ==
  LET partition_key == JsonGet(value, "partition_key", JsonNull)
  IN TableMeta(StringOf(JsonGet(value, "partition_type", JsonString("none"))),
               IF partition_key.t = "null" THEN <<>> ELSE <<StringOf(partition_key)>>,
               Truthy(JsonGet(value, "ingestion_time", JsonBool(FALSE))),
               StringOf(JsonGet(value, "last_seen_ts", JsonString(""))))

\* load, lines 37-43: the loop over the members from index i on; it stops
\* with AttributeError at the first member that is no object
RECURSIVE LoadLoop(_, _, _)
LoadLoop(members, i, tables) ==
  IF i > Len(members) THEN [raised |-> FALSE, tables |-> tables]
  ELSE IF members[i].value.t # "object" THEN [raised |-> TRUE, tables |-> tables]
  ELSE LoadLoop(members, i + 1,
                DictPut(tables, members[i].key, LoadedEntry(members[i].value)))

\* value == n in Python for a parsed JSON value and an int: True equals 1
\* and False equals 0
JsonEqualsInt(value, n) ==
  CASE value.t = "int" -> value.int = n
    [] value.t = "bool" -> n = (IF value.bool THEN 1 ELSE 0)
    [] value.t \in {"null", "string", "array", "object"} -> FALSE

\* the state of the backing file: absent, unreadable or not JSON (read_text
\* or json.loads raises), or holding a JSON value
FileAbsent == [kind |-> "absent"]
FileUnreadable == [kind |-> "unreadable"]
FileHolding(data) == [kind |-> "json", data |-> data]

\* load, lines 27-43, on the map tables: the map it leaves and whether it
\* raised
CacheLoad(tables, file, schema_version) ==
  IF file.kind \in {"absent", "unreadable"} THEN [raised |-> FALSE, tables |-> tables]
  ELSE IF file.data.t # "object" THEN [raised |-> TRUE, tables |-> tables]
  ELSE
    LET version == JsonGet(file.data, "schema_version", JsonNull)
        members == JsonGet(file.data, "tables", JsonObject(<<>>))
    IN IF ~JsonEqualsInt(version, schema_version)
         THEN [raised |-> FALSE, tables |-> tables]
       ELSE IF members.t # "object" THEN [raised |-> TRUE, tables |-> tables]
       ELSE LoadLoop(members.members, 1, tables)

(***************************************************************************)
(* policy/sql_sanitize.py                                                  *)
(***************************************************************************)
\* \s of the re module and the characters str.strip() removes
Whitespace == {" ", "\t", "\n", "\r"}

\* the literal text lit occurs in s at offset p (exact characters)
MatchesAt(s, p, lit) ==
  /\ p + Len(lit) <= Len(s)
  /\ \A j \in 1..Len(lit) : s[p + j] = lit[j]

\* least element of a non-empty set of integers
Least(S) == CHOOSE x \in S : \A y \in S : x <= y

\* SINGLE_LINE_COMMENT = "--.*?$" (MULTILINE): index of the last character of
\* the match that starts at index p, 0 when no match starts at p
LineCommentEnd(s, p) ==
  IF MatchesAt(s, p - 1, <<"-", "-">>)
    THEN LET nl == {q \in (p + 2)..Len(s) : s[q] = "\n"}
         IN IF nl = {} THEN Len(s) ELSE Least(nl) - 1
    ELSE 0

\* MULTI_LINE_COMMENT = "/\*.*?\*/" (DOTALL)
BlockCommentEnd(s, p) ==
  IF MatchesAt(s, p - 1, <<"/", "*">>)
    THEN LET cl == {q \in (p + 2)..(Len(s) - 1) : s[q] = "*" /\ s[q + 1] = "/"}
         IN IF cl = {} THEN 0 ELSE Least(cl) + 1
    ELSE 0

\* the body (?:''|[^'])* read greedily from index q: the sequence of indices
\* at which the closing quote may stand, in the order the matcher reaches them
RECURSIVE StringCloseCandidates(_, _)
StringCloseCandidates(s, q) ==
  IF q > Len(s) THEN <<>>
  ELSE IF s[q] # "'" THEN StringCloseCandidates(s, q + 1)
  ELSE IF q + 1 <= Len(s) /\ s[q + 1] = "'"
    THEN <<q>> \o StringCloseCandidates(s, q + 2)
  ELSE <<q>>

\* STRING_LITERAL = "'(?:''|[^'])*'": the greedy body backtracks to the last
\* position at which a closing quote stands
StringLiteralEnd(s, p) ==
  IF p <= Len(s) /\ s[p] = "'"
    THEN LET c == StringCloseCandidates(s, p + 1)
         IN IF c = <<>> THEN 0 ELSE c[Len(c)]
    ELSE 0

\* the backtick character (the grave accent cannot be written in a string)
Backtick == "BACKTICK"

\* BACKTICK_LITERAL: a backtick, any characters but backticks, a backtick
BacktickEnd(s, p) ==
  IF p <= Len(s) /\ s[p] = Backtick
    THEN LET cl == {q \in (p + 1)..Len(s) : s[q] = Backtick}
         IN IF cl = {} THEN 0 ELSE Least(cl)
    ELSE 0

RECURSIVE SubLineComments(_, _)
SubLineComments(s, p) ==
  IF p > Len(s) THEN <<>>
  ELSE IF LineCommentEnd(s, p) > 0 THEN SubLineComments(s, LineCommentEnd(s, p) + 1)
  ELSE <<s[p]>> \o SubLineComments(s, p + 1)

RECURSIVE SubBlockComments(_, _)
SubBlockComments(s, p) ==
  IF p > Len(s) THEN <<>>
  ELSE IF BlockCommentEnd(s, p) > 0 THEN SubBlockComments(s, BlockCommentEnd(s, p) + 1)
  ELSE <<s[p]>> \o SubBlockComments(s, p + 1)

RECURSIVE SubStringLiterals(_, _)
SubStringLiterals(s, p) ==
  IF p > Len(s) THEN <<>>
  ELSE IF StringLiteralEnd(s, p) > 0
    THEN <<"'", "'">> \o SubStringLiterals(s, StringLiteralEnd(s, p) + 1)
  ELSE <<s[p]>> \o SubStringLiterals(s, p + 1)

RECURSIVE SubBackticks(_, _)
SubBackticks(s, p) ==
  IF p > Len(s) THEN <<>>
  ELSE IF BacktickEnd(s, p) > 0
    THEN <<Backtick, Backtick>> \o SubBackticks(s, BacktickEnd(s, p) + 1)
  ELSE <<s[p]>> \o SubBackticks(s, p + 1)

StripComments(sql) == SubBlockComments(SubLineComments(sql, 1), 1)

StripStrings(sql) == SubBackticks(SubStringLiterals(sql, 1), 1)

SanitizeSql(sql) == StripStrings(StripComments(sql))

\* index of the first character from index i on that is not whitespace,
\* Len(s) + 1 when there is none
RECURSIVE FirstInk(_, _)
FirstInk(s, i) ==
  IF i > Len(s) \/ s[i] \notin Whitespace THEN i ELSE FirstInk(s, i + 1)

\* index of the last character up to index i that is not whitespace, 0 when
\* there is none
RECURSIVE LastInk(_, _)
LastInk(s, i) ==
  IF i < 1 \/ s[i] \notin Whitespace THEN i ELSE LastInk(s, i - 1)

\* str.strip()
Strip(s) == SubSeq(s, FirstInk(s, 1), LastInk(s, Len(s)))

(***************************************************************************)
(* policy/checks.py                                                        *)
(***************************************************************************)
KwSelect == <<"s", "e", "l", "e", "c", "t">>
KwCross == <<"c", "r", "o", "s", "s">>
KwJoin == <<"j", "o", "i", "n">>
KwOn == <<"o", "n">>
KwUsing == <<"u", "s", "i", "n", "g">>
KwBegin == <<"b", "e", "g", "i", "n">>
KwEnd == <<"e", "n", "d">>
KwDeclare == <<"d", "e", "c", "l", "a", "r", "e">>

DDL_DML ==
  { <<"i", "n", "s", "e", "r", "t">>, <<"u", "p", "d", "a", "t", "e">>,
    <<"d", "e", "l", "e", "t", "e">>, <<"m", "e", "r", "g", "e">>,
    <<"c", "r", "e", "a", "t", "e">>, <<"d", "r", "o", "p">>,
    <<"a", "l", "t", "e", "r">>, <<"t", "r", "u", "n", "c", "a", "t", "e">> }

\* str.upper() and str.lower() of one character
Upper(c) ==
  IF c \in SeqRange(LowerLetters)
    THEN UpperLetters[CHOOSE i \in DOMAIN LowerLetters : LowerLetters[i] = c]
    ELSE c

LowerText(s) == [i \in DOMAIN s |-> Lower(s[i])]

UpperText(s) == [i \in DOMAIN s |-> Upper(s[i])]

\* re.search(r"\bword\b", s, re.IGNORECASE)
SearchWord(s, word) ==
  \E p \in 0..Len(s) :
    /\ WordBoundary(s, p)
    /\ MatchesAtIgnoreCase(s, p, word)
    /\ WordBoundary(s, p + Len(word))

\* SELECT_STAR = r"\bselect\s+[^;]*?\*" (IGNORECASE | DOTALL)
SearchSelectStar(s) ==
  \E p \in 0..Len(s) :
    /\ WordBoundary(s, p)
    /\ MatchesAtIgnoreCase(s, p, KwSelect)
    /\ p + 7 <= Len(s)
    /\ s[p + 7] \in Whitespace
    /\ \E q \in (p + 8)..Len(s) :
         /\ s[q] = "*"
         /\ \A k \in (p + 8)..(q - 1) : s[k] # ";"

\* ALIAS_STAR = r"\b\w+\.\*"
SearchAliasStar(s) ==
  \E k \in 1..(Len(s) - 2) :
    IsWordChar(s[k]) /\ s[k + 1] = "." /\ s[k + 2] = "*"

\* the whitespace run \s+ that starts at index q ends before the result
RECURSIVE SkipWhitespace(_, _)
SkipWhitespace(s, q) ==
  IF q <= Len(s) /\ s[q] \in Whitespace THEN SkipWhitespace(s, q + 1) ELSE q

\* CROSS_JOIN = r"\bcross\s+join\b" (IGNORECASE)
SearchCrossJoin(s) ==
  \E p \in 0..Len(s) :
    /\ WordBoundary(s, p)
    /\ MatchesAtIgnoreCase(s, p, KwCross)
    /\ p + 6 <= Len(s)
    /\ s[p + 6] \in Whitespace
    /\ LET q == SkipWhitespace(s, p + 6)
       IN /\ MatchesAtIgnoreCase(s, q - 1, KwJoin)
          /\ WordBoundary(s, q - 1 + Len(KwJoin))

\* mutant of CheckBytes: the warning threshold is tested first
CheckBytesWarnFirst(bytes_processed, warn, block) ==
  IF bytes_processed = <<>> THEN <<>>
  ELSE IF bytes_processed[1] >= warn
    THEN <<Finding("WARN", "BYTES_WARN", <<"MSG_BYTES_WARN", bytes_processed[1]>>,
                   <<>>, <<>>)>>
  ELSE IF bytes_processed[1] >= block
    THEN <<Finding("ERROR", "BYTES_BLOCK", <<"MSG_BYTES_BLOCK", bytes_processed[1]>>,
                   <<>>, <<>>)>>
  ELSE <<>>

CheckBytes(bytes_processed, warn, block) ==
  IF bytes_processed = <<>> THEN <<>>
  ELSE IF bytes_processed[1] >= block
    THEN <<Finding("ERROR", "BYTES_BLOCK", <<"MSG_BYTES_BLOCK", bytes_processed[1]>>,
                   <<>>, <<>>)>>
  ELSE IF bytes_processed[1] >= warn
    THEN <<Finding("WARN", "BYTES_WARN", <<"MSG_BYTES_WARN", bytes_processed[1]>>,
                   <<>>, <<>>)>>
  ELSE <<>>

\* mutant of CheckSelectStar: the qualified star is not looked for
CheckSelectStarBareOnly(sql) ==
  LET sanitized == SanitizeSql(sql)
  IN IF SearchSelectStar(sanitized)
       THEN <<Finding("WARN", "SELECT_STAR", <<"MSG_SELECT_STAR">>, <<>>, <<>>)>>
       ELSE <<>>

CheckSelectStar(sql) ==
  LET sanitized == SanitizeSql(sql)
  IN IF SearchSelectStar(sanitized) \/ SearchAliasStar(sanitized)
       THEN <<Finding("WARN", "SELECT_STAR", <<"MSG_SELECT_STAR">>, <<>>, <<>>)>>
       ELSE <<>>

CheckCrossJoin(sql) ==
  IF SearchCrossJoin(SanitizeSql(sql))
    THEN <<Finding("WARN", "CROSS_JOIN", <<"MSG_CROSS_JOIN">>, <<>>, <<>>)>>
    ELSE <<>>

\* mutant of CheckSuspectJoin: USING does not count as a join condition
CheckSuspectJoinOnOnly(sql) ==
  LET sanitized == SanitizeSql(sql)
  IN IF SearchWord(sanitized, KwJoin) /\ ~SearchWord(sanitized, KwOn)
       THEN <<Finding("WARN", "SUSPECT_JOIN", <<"MSG_SUSPECT_JOIN">>, <<>>, <<>>)>>
       ELSE <<>>

CheckSuspectJoin(sql) ==
  LET sanitized == SanitizeSql(sql)
  IN IF /\ SearchWord(sanitized, KwJoin)
        /\ ~(SearchWord(sanitized, KwOn) \/ SearchWord(sanitized, KwUsing))
       THEN <<Finding("WARN", "SUSPECT_JOIN", <<"MSG_SUSPECT_JOIN">>, <<>>, <<>>)>>
       ELSE <<>>

\* STATEMENT_SPLIT.split(s) with STATEMENT_SPLIT = r";\s*": cur is the fragment
\* read so far
RECURSIVE SplitStatements(_, _, _)
SplitStatements(s, p, cur) ==
  IF p > Len(s) THEN <<cur>>
  ELSE IF s[p] = ";"
    THEN <<cur>> \o SplitStatements(s, SkipWhitespace(s, p + 1), <<>>)
  ELSE SplitStatements(s, p + 1, Append(cur, s[p]))

\* mutant of CheckMultiStatement: empty fragments are counted as statements
CheckMultiStatementCountAll(sql, block) ==
  LET sanitized == Strip(SanitizeSql(sql))
      parts == SplitStatements(sanitized, 1, <<>>)
      severity == IF block THEN "ERROR" ELSE "WARN"
  IN IF \/ SearchWord(sanitized, KwBegin)
        \/ SearchWord(sanitized, KwEnd)
        \/ SearchWord(sanitized, KwDeclare)
       THEN <<Finding(severity, "SCRIPT", <<"MSG_SCRIPT">>, <<>>, <<>>)>>
     ELSE IF Len(parts) > 1
       THEN <<Finding(severity, "MULTI_STATEMENT", <<"MSG_MULTI_STATEMENT">>, <<>>, <<>>)>>
     ELSE <<>>

CheckMultiStatement(sql, block) ==
  LET sanitized == Strip(SanitizeSql(sql))
      parts == SplitStatements(sanitized, 1, <<>>)
      statements == {i \in DOMAIN parts : Strip(parts[i]) # <<>>}
      severity == IF block THEN "ERROR" ELSE "WARN"
  IN IF \/ SearchWord(sanitized, KwBegin)
        \/ SearchWord(sanitized, KwEnd)
        \/ SearchWord(sanitized, KwDeclare)
       THEN <<Finding(severity, "SCRIPT", <<"MSG_SCRIPT">>, <<>>, <<>>)>>
     ELSE IF Cardinality(statements) > 1
       THEN <<Finding(severity, "MULTI_STATEMENT", <<"MSG_MULTI_STATEMENT">>, <<>>, <<>>)>>
     ELSE <<>>

\* re.match(r"^(\w+)", s): the leading run of word characters
RECURSIVE LeadingWord(_, _)
LeadingWord(s, p) ==
  IF p <= Len(s) /\ IsWordChar(s[p]) THEN <<s[p]>> \o LeadingWord(s, p + 1) ELSE <<>>

\* mutant of CheckDdlDml: the leading word is compared as written
CheckDdlDmlCaseSensitive(sql) ==
  LET sanitized == Strip(SanitizeSql(sql))
      word == LeadingWord(sanitized, 1)
  IN IF word # <<>> /\ word \in DDL_DML
       THEN <<Finding("WARN", "DDL_DML", <<"MSG_DDL_DML", UpperText(word)>>, <<>>, <<>>)>>
       ELSE <<>>

CheckDdlDml(sql) ==
  LET sanitized == Strip(SanitizeSql(sql))
      word == LeadingWord(sanitized, 1)
  IN IF word # <<>> /\ LowerText(word) \in DDL_DML
       THEN <<Finding("WARN", "DDL_DML", <<"MSG_DDL_DML", UpperText(word)>>, <<>>, <<>>)>>
       ELSE <<>>

\* mutant of RunPolicyChecks: the findings are put in severity order, errors
\* first
RunPolicyChecksErrorsFirst(sql, cfg, bytes_processed) ==
  LET found ==
        CheckBytes(bytes_processed, cfg.limits.warn_bytes, cfg.limits.block_bytes)
        \o (IF cfg.policy.warn_select_star THEN CheckSelectStar(sql) ELSE <<>>)
        \o (IF cfg.policy.warn_cross_join THEN CheckCrossJoin(sql) ELSE <<>>)
        \o (IF cfg.policy.warn_suspect_join THEN CheckSuspectJoin(sql) ELSE <<>>)
        \o (IF cfg.policy.block_multi_statement
              THEN CheckMultiStatement(sql, TRUE)
              ELSE CheckMultiStatement(sql, FALSE))
        \o (IF cfg.policy.warn_ddl_dml THEN CheckDdlDml(sql) ELSE <<>>)
      IsError(f) == f.severity = "ERROR"
      IsNoError(f) == f.severity # "ERROR"
  IN SelectSeq(found, IsError) \o SelectSeq(found, IsNoError)

\* mutant of RunPolicyChecks: the select-star check also obeys the cross-join
\* switch
RunPolicyChecksSharedSwitch(sql, cfg, bytes_processed) ==
  CheckBytes(bytes_processed, cfg.limits.warn_bytes, cfg.limits.block_bytes)
  \o (IF cfg.policy.warn_select_star /\ cfg.policy.warn_cross_join
        THEN CheckSelectStar(sql) ELSE <<>>)
  \o (IF cfg.policy.warn_cross_join THEN CheckCrossJoin(sql) ELSE <<>>)
  \o (IF cfg.policy.warn_suspect_join THEN CheckSuspectJoin(sql) ELSE <<>>)
  \o (IF cfg.policy.block_multi_statement
        THEN CheckMultiStatement(sql, TRUE)
        ELSE CheckMultiStatement(sql, FALSE))
  \o (IF cfg.policy.warn_ddl_dml THEN CheckDdlDml(sql) ELSE <<>>)

RunPolicyChecks(sql, cfg, bytes_processed) ==
  CheckBytes(bytes_processed, cfg.limits.warn_bytes, cfg.limits.block_bytes)
  \o (IF cfg.policy.warn_select_star THEN CheckSelectStar(sql) ELSE <<>>)
  \o (IF cfg.policy.warn_cross_join THEN CheckCrossJoin(sql) ELSE <<>>)
  \o (IF cfg.policy.warn_suspect_join THEN CheckSuspectJoin(sql) ELSE <<>>)
  \o (IF cfg.policy.block_multi_statement
        THEN CheckMultiStatement(sql, TRUE)
        ELSE CheckMultiStatement(sql, FALSE))
  \o (IF cfg.policy.warn_ddl_dml THEN CheckDdlDml(sql) ELSE <<>>)

(***************************************************************************)
(* policy/partition.py                                                     *)
(***************************************************************************)
K_PARTITIONDATE == <<"_", "P", "A", "R", "T", "I", "T", "I", "O", "N", "D", "A", "T", "E">>
K_PARTITIONTIME == <<"_", "P", "A", "R", "T", "I", "T", "I", "O", "N", "T", "I", "M", "E">>
EvidencePseudoColumns == K_PARTITIONDATE \o <<"/">> \o K_PARTITIONTIME
LineExempt == <<":", " ", "e", "x", "e", "m", "p", "t">>
LineNonPartition == <<":", " ", "n", "o", "n", "-", "p", "a", "r", "t", "i", "t", "i", "o", "n">>
LineOk == <<":", " ", "o", "k">>
LineMissing == <<":", " ", "m", "i", "s", "s", "i", "n", "g", " ">>

\* mutant of _has_partition_filter: the word boundaries are dropped
HasPartitionFilterNoBoundary(sql, key) ==
  \E p \in 0..Len(sql) : MatchesAtIgnoreCase(sql, p, key)

\* mutant of _has_partition_filter: the match is case-sensitive
HasPartitionFilterCaseSensitive(sql, key) ==
  \E p \in 0..Len(sql) :
    /\ WordBoundary(sql, p)
    /\ p + Len(key) <= Len(sql)
    /\ \A j \in 1..Len(key) : sql[p + j] = key[j]
    /\ WordBoundary(sql, p + Len(key))

\* re.search(rf"\b{re.escape(key)}\b", sql, re.IGNORECASE) is not None
HasPartitionFilter(sql, key) ==
  \E p \in 0..Len(sql) :
    /\ MatchesAtIgnoreCase(sql, p, key)
    /\ WordBoundary(sql, p)
    /\ WordBoundary(sql, p + Len(key))

PartitionTablesUnknown ==
  Finding("WARN", "PARTITION_TABLES_UNKNOWN", <<"MSG_TABLES_UNKNOWN">>, <<>>, <<>>)

PartitionMissing(evidence, table) ==
  Finding("ERROR", "PARTITION_MISSING", <<"MSG_PARTITION_FILTER_REQUIRED">>,
          <<evidence>>, <<table>>)

\* mutant of EnforceDescriptor: a descriptor of partition type none is not
\* told from a partitioned one
EnforceDescriptorAbsentOnly(sql, table, table_meta) ==
  LET meta == DictGet(table_meta, table)
  IN IF meta = <<>>
       THEN [findings |-> <<>>, summary |-> <<table \o LineNonPartition>>]
     ELSE IF meta[1].ingestion_time
       THEN [findings |-> <<>>, summary |-> <<table \o LineOk>>]
     ELSE [findings |-> <<>>, summary |-> <<>>]

\* lines 37-72 of the loop body: the table is not exempt
EnforceDescriptor(sql, table, table_meta) ==
  LET meta == DictGet(table_meta, table)
  IN IF meta = <<>> \/ meta[1].partition_type = "none"
       THEN [findings |-> <<>>, summary |-> <<table \o LineNonPartition>>]
     ELSE IF meta[1].ingestion_time
       THEN IF ~(HasPartitionFilter(sql, K_PARTITIONDATE)
                 \/ HasPartitionFilter(sql, K_PARTITIONTIME))
              THEN [findings |-> <<PartitionMissing(EvidencePseudoColumns, table)>>,
                    summary |-> <<table \o LineMissing \o EvidencePseudoColumns>>]
              ELSE [findings |-> <<>>, summary |-> <<table \o LineOk>>]
     ELSE IF meta[1].partition_key # <<>> /\ meta[1].partition_key[1] # <<>>
       THEN IF ~HasPartitionFilter(sql, meta[1].partition_key[1])
              THEN [findings |-> <<PartitionMissing(meta[1].partition_key[1], table)>>,
                    summary |-> <<table \o LineMissing \o meta[1].partition_key[1]>>]
              ELSE [findings |-> <<>>, summary |-> <<table \o LineOk>>]
     ELSE [findings |-> <<>>, summary |-> <<>>]

\* mutant of EnforceTable: the descriptor lookup precedes the exemption test
EnforceTableDescriptorFirst(sql, table, table_meta, exempt) ==
  LET meta == DictGet(table_meta, table)
  IN IF meta = <<>> \/ meta[1].partition_type = "none"
       THEN EnforceDescriptor(sql, table, table_meta)
     ELSE IF table \in exempt
       THEN [findings |-> <<>>, summary |-> <<table \o LineExempt>>]
     ELSE EnforceDescriptor(sql, table, table_meta)

\* one iteration of the loop over referenced_tables
EnforceTable(sql, table, table_meta, exempt) ==
  IF table \in exempt
    THEN [findings |-> <<>>, summary |-> <<table \o LineExempt>>]
    ELSE EnforceDescriptor(sql, table, table_meta)

RECURSIVE EnforceLoop(_, _, _, _, _, _)
EnforceLoop(sql, referenced_tables, table_meta, exempt, i, acc) ==
  IF i > Len(referenced_tables)
    THEN acc
    ELSE LET r == EnforceTable(sql, referenced_tables[i], table_meta, exempt)
         IN EnforceLoop(sql, referenced_tables, table_meta, exempt, i + 1,
                        [findings |-> acc.findings \o r.findings,
                         summary |-> acc.summary \o r.summary])

\* mutant of EnforcePartitionFilters: an empty list of tables is not reported
EnforcePartitionFiltersSilent(sql, referenced_tables, table_meta, cfg) ==
  EnforceLoop(sql, referenced_tables, table_meta,
              SeqRange(cfg.exceptions.partition_exempt_tables), 1,
              [findings |-> <<>>, summary |-> <<>>])

EnforcePartitionFilters(sql, referenced_tables, table_meta, cfg) ==
  IF referenced_tables = <<>>
    THEN [findings |-> <<PartitionTablesUnknown>>, summary |-> <<>>]
    ELSE EnforceLoop(sql, referenced_tables, table_meta,
                     SeqRange(cfg.exceptions.partition_exempt_tables), 1,
                     [findings |-> <<>>, summary |-> <<>>])

(***************************************************************************)
(* bq/metadata.py                                                          *)
(***************************************************************************)
\* a bigquery.Table as far as extract_partition_info reads it:
\* time_partitioning and range_partitioning are None or carry a field
TableObject(time_partitioning, range_partitioning) ==
  [time_partitioning |-> time_partitioning, range_partitioning |-> range_partitioning]

ExtractPartitionInfo(table) ==
  LET tp == table.time_partitioning
      rp == table.range_partitioning
      time_type == IF tp # <<>> THEN "time" ELSE "none"
      time_key == IF tp # <<>>
                    THEN (IF tp[1].field # <<>> /\ tp[1].field[1] # <<>>
                            THEN tp[1].field
                            ELSE <<K_PARTITIONDATE>>)
                    ELSE <<>>
      ingestion == tp # <<>> /\ ~(tp[1].field # <<>> /\ tp[1].field[1] # <<>>)
  IN TableMeta(IF rp # <<>> THEN "range" ELSE time_type,
               IF rp # <<>> THEN rp[1].field ELSE time_key,
               ingestion, "")

(***************************************************************************)
(* app.py: helpers                                                         *)
(***************************************************************************)
\* [\w-] of TABLE_REGEX and DATASET_TABLE_REGEX
IsNameChar(c) == IsWordChar(c) \/ c = "-"

\* index of the last character of the run [\w-]+ that starts at index p,
\* p - 1 when no such character stands at p
RECURSIVE NameRunEnd(_, _)
NameRunEnd(s, p) ==
  IF p <= Len(s) /\ IsNameChar(s[p]) THEN NameRunEnd(s, p + 1) ELSE p - 1

\* a match of n dotted names, optionally between backticks, that starts at
\* index p: [end |-> index of its last character, groups |-> the names];
\* end = 0 when no match starts at p
RECURSIVE DottedNames(_, _, _)
DottedNames(s, p, n) ==
  LET e == NameRunEnd(s, p)
  IN IF e < p THEN [end |-> 0, groups |-> <<>>]
     ELSE IF n = 1 THEN [end |-> e, groups |-> <<SubSeq(s, p, e)>>]
     ELSE IF e + 1 <= Len(s) /\ s[e + 1] = "."
       THEN LET rest == DottedNames(s, e + 2, n - 1)
            IN IF rest.end = 0 THEN rest
               ELSE [end |-> rest.end, groups |-> <<SubSeq(s, p, e)>> \o rest.groups]
     ELSE [end |-> 0, groups |-> <<>>]

TableMatchAt(s, p, n) ==
  LET start == IF p <= Len(s) /\ s[p] = Backtick THEN p + 1 ELSE p
      m == DottedNames(s, start, n)
  IN IF m.end = 0 THEN m
     ELSE IF m.end + 1 <= Len(s) /\ s[m.end + 1] = Backtick
       THEN [m EXCEPT !.end = m.end + 1]
     ELSE m

\* regex.finditer(sql): the groups of the successive matches
RECURSIVE FindTableMatches(_, _, _)
FindTableMatches(s, p, n) ==
  IF p > Len(s) THEN <<>>
  ELSE LET m == TableMatchAt(s, p, n)
       IN IF m.end > 0
            THEN <<m.groups>> \o FindTableMatches(s, m.end + 1, n)
            ELSE FindTableMatches(s, p + 1, n)

\* list(dict.fromkeys(xs)): first occurrences, in order
RECURSIVE DedupKeepFirst(_, _)
DedupKeepFirst(xs, seen) ==
  IF xs = <<>> THEN <<>>
  ELSE IF Head(xs) \in seen THEN DedupKeepFirst(Tail(xs), seen)
  ELSE <<Head(xs)>> \o DedupKeepFirst(Tail(xs), seen \cup {Head(xs)})

ExtractTables(sql, default_project) ==
  LET three == FindTableMatches(sql, 1, 3)
      two == FindTableMatches(sql, 1, 2)
      full == [i \in DOMAIN three |->
                 three[i][1] \o <<".">> \o three[i][2] \o <<".">> \o three[i][3]]
      qualified == [i \in DOMAIN two |->
                      default_project[1] \o <<".">> \o two[i][1] \o <<".">> \o two[i][2]]
  IN IF full # <<>> THEN DedupKeepFirst(full, {})
     ELSE IF default_project # <<>> /\ default_project[1] # <<>>
       THEN DedupKeepFirst(qualified, {})
     ELSE <<>>

\* a run that always takes the tables found in the SQL text
SelectTablesFromTextOnly(reported, extracted) == extracted

\* _run_dry_run, lines 204-206: the tables the dry-run reported, or, when it
\* reported none, the tables _extract_tables finds in the SQL text
SelectTables(reported, extracted) == IF reported # <<>> THEN reported ELSE extracted

\* str(n) of a natural number
RECURSIVE DecimalText(_)
DecimalText(n) ==
  LET d == <<"0", "1", "2", "3", "4", "5", "6", "7", "8", "9">>[(n % 10) + 1]
  IN IF n < 10 THEN <<d>> ELSE DecimalText(n \div 10) \o <<d>>

\* f"{num/den:.1f}": the quotient rounded to one decimal, ties to even
\* (dividing by a power of 1024 is exact in binary floating point)
OneDecimalText(num, den) ==
  LET scaled == 10 * num
      q == scaled \div den
      r == scaled % den
      tenths == IF 2 * r > den \/ (2 * r = den /\ q % 2 = 1) THEN q + 1 ELSE q
  IN DecimalText(tenths \div 10) \o <<".">> \o DecimalText(tenths % 10)

HumanUnits == <<<<"K", "B">>, <<"M", "B">>, <<"G", "B">>, <<"T", "B">>, <<"P", "B">>>>

RECURSIVE HumanBytesLoop(_, _, _)
HumanBytesLoop(value, den, k) ==
  IF k > Len(HumanUnits) THEN OneDecimalText(value, den) \o <<"E", "B">>
  ELSE IF value < 1024 * (den * 1024)
    THEN OneDecimalText(value, den * 1024) \o HumanUnits[k]
  ELSE HumanBytesLoop(value, den * 1024, k + 1)

HumanBytes(value) ==
  IF value < 1024 THEN DecimalText(value) \o <<"B">>
  ELSE HumanBytesLoop(value, 1, 1)

(***************************************************************************)
(* config.py: the configuration after load_config.  The byte limits are    *)
(* those of a user configuration (the thresholds of spec section 8).       *)
(***************************************************************************)
LoadedConfig ==
  [app |-> [default_project |-> <<>>, default_location |-> <<>>,
            preview_rows |-> 50, page_size |-> 1000],
   limits |-> [warn_bytes |-> 500, block_bytes |-> 1000],
   policy |-> [enforce_partition_filter |-> TRUE, block_multi_statement |-> TRUE,
               warn_select_star |-> TRUE, warn_cross_join |-> TRUE,
               warn_suspect_join |-> TRUE, warn_ddl_dml |-> TRUE,
               allow_execute_with_warnings |-> TRUE],
   exceptions |-> [partition_exempt_tables |-> <<>>],
   cache |-> [schema_version |-> 1],
   bq |-> [use_query_cache |-> FALSE],
   ui |-> [auto_estimate_debounce_ms |-> 900]]

(***************************************************************************)
(* The environment of the app: the texts the user types, the results of    *)
(* the dry-run call and the tables the metadata collaborator describes.    *)
(***************************************************************************)
TableT == <<"p", ".", "d", ".", "t">>
TableU == <<"p", ".", "d", ".", "u">>
Tables == {TableT, TableU}

ColEventDate == <<"e", "v", "e", "n", "t", "_", "d", "a", "t", "e">>

\* "SELECT * FROM p.d.t"
SqlStar ==
  <<"S", "E", "L", "E", "C", "T", " ", "*", " ", "F", "R", "O", "M", " ",
    "p", ".", "d", ".", "t">>

\* "SELECT 1 FROM p.d.t WHERE _PARTITIONTIME>0"
SqlFiltered ==
  <<"S", "E", "L", "E", "C", "T", " ", "1", " ", "F", "R", "O", "M", " ",
    "p", ".", "d", ".", "t", " ", "W", "H", "E", "R", "E", " ">>
  \o K_PARTITIONTIME \o <<">", "0">>

EditorTexts == {<<" ">>, SqlStar, SqlFiltered}

DefaultProjects == {<<<<"p">>>>}

LocationFallback == <<"a", "s", "i", "a", "-", "n", "o", "r", "t", "h", "e", "a", "s", "t", "1">>

\* the result of dry_run_query: a DryRunResult, or an exception
DryRunResult(bytes_processed, referenced_tables) ==
  [ok |-> TRUE, bytes_processed |-> bytes_processed,
   referenced_tables |-> referenced_tables]

DryRunOutcomes ==
  { [ok |-> FALSE],
    DryRunResult(<<700>>, <<TableT>>) }

\* the result of fetch_table_metadata: <<>> is an exception
FetchOutcomes ==
  { <<>>,
    <<TableObject(<<[field |-> <<>>]>>, <<>>)>> }

\* the values entered in the settings dialog: the two limits, <<>> when the
\* field does not parse as an integer
SettingsInputs == {<<<<500>>, <<1000>>>>, <<<<500>>, <<>>>>}

\* the values typed in the confirmation input of the review dialog
Run == <<"R", "U", "N", " ">>

ConfirmInputs(required) == {<<" ">> \o required \o <<" ">>, Run}

(***************************************************************************)
(* run_policy_checks, _extract_tables and human_bytes are pure.  What they *)
(* return on the inputs a run of the app can hold in this environment is   *)
(* computed once, here, and looked up by the runs.                         *)
(***************************************************************************)
\* the configurations load_config may return
InitialConfigs ==
  {[LoadedConfig EXCEPT !.policy.allow_execute_with_warnings = allow] :
     allow \in BOOLEAN}

Max(a, b) == IF a >= b THEN a ELSE b

\* SettingsModal.on_button_pressed("save") and _handle_settings_save, lines
\* 381-386: the configuration after the save
SavedConfig(cfg, input) ==
  [cfg EXCEPT !.limits.warn_bytes = Max(0, input[1][1]),
              !.limits.block_bytes = Max(0, input[2][1]),
              !.app.preview_rows = Max(1, cfg.app.preview_rows),
              !.app.default_location = <<>>]

RunConfigs ==
  InitialConfigs \cup
  {SavedConfig(cfg, input) :
     cfg \in InitialConfigs,
     input \in {i \in SettingsInputs : i[1] # <<>> /\ i[2] # <<>>}}

RunBytes == {o.bytes_processed : o \in {d \in DryRunOutcomes : d.ok}}

ExtractTablesOnce ==
  [sql \in EditorTexts |->
     [default_project \in DefaultProjects |-> ExtractTables(sql, default_project)]]

PolicyChecksOnce ==
  [sql \in EditorTexts |->
     [cfg \in RunConfigs |->
        [bytes_processed \in RunBytes |-> RunPolicyChecks(sql, cfg, bytes_processed)]]]

HumanBytesOnce ==
  [value \in {0} \cup {b[1] : b \in {x \in RunBytes : x # <<>>}} |-> HumanBytes(value)]

(***************************************************************************)
(* app.py: state                                                           *)
(***************************************************************************)
DryRunState(sql, bytes_processed, referenced_tables, findings, partition_summary) ==
  [sql |-> sql, bytes_processed |-> bytes_processed,
   referenced_tables |-> referenced_tables, findings |-> findings,
   partition_summary |-> partition_summary]

Task(kind, rev, pc, sql, thread) ==
  [kind |-> kind, revision |-> rev, pc |-> pc, sql |-> sql, thread |-> thread,
   dry |-> <<>>, refs |-> <<>>]

\* a task that has ended and whose worker thread has ended: nothing reads it
\* but Task.done()
Ended == Task("ended", 0, "done", <<>>, "none")

IsDone(task) == task.pc \in {"done", "cancelled"}

\* BqGuardApp.__init__ and on_mount, but for the configuration
InitAppState ==
  /\ revision = 0
  /\ editorText = <<>>
  /\ defaultProject \in DefaultProjects
  /\ defaultLocation = LocationFallback
  /\ estimateTask = 0
  /\ tasks = <<>>
  /\ created = 0
  /\ lastDryRun = <<>>
  /\ cacheTables = <<>>
  /\ cacheFile = FileAbsent
  /\ history = <<>>
  /\ screens = <<>>
  /\ lastJob = <<>>
  /\ publishedRev = <<>>

\* no function of the policy engine is being applied
NoCall == [fn |-> "none", args |-> <<>>, ret |-> <<>>]

Init ==
  /\ InitAppState
  /\ config \in InitialConfigs
  /\ call = NoCall

(***************************************************************************)
(* app.py: _schedule_estimate and the handlers that call it                *)
(***************************************************************************)
\* the tasks ts after a step: those that have ended are forgotten, and the
\* index est of _estimate_task moves with its task
NotEnded(task) == task # Ended

Settle(ts, est) ==
  /\ tasks' = SelectSeq(ts, NotEnded)
  /\ estimateTask' = IF est = 0 \/ ts[est] = Ended THEN 0
                      ELSE Cardinality({i \in 1..est : ts[i] # Ended})

\* mutant of CancelEstimateTask: the outstanding task is not cancelled
CancelNothing(ts, id) == ts

\* lines 148-149: Task.cancel() ends the coroutine at the await it is
\* suspended in; a worker thread it started keeps running.  The thread of
\* the metadata fill still writes the cache; the thread of the dry-run call
\* has no effect left, its result is dropped
CancelEstimateTask(ts, id) ==
  IF id # 0 /\ ~IsDone(ts[id])
    THEN [ts EXCEPT ![id] = IF ts[id].thread = "meta"
                              THEN [ts[id] EXCEPT !.pc = "cancelled"]
                              ELSE Ended]
    ELSE ts

\* _schedule_estimate: the tasks after the call
ScheduleEstimate ==
  /\ created < MaxTasks
  /\ created' = created + 1
  /\ Settle(Append(CancelEstimateTask(tasks, estimateTask),
                   Task("debounce", revision', "sleep", <<>>, "none")),
            Len(tasks) + 1)

\* mutant of NextRevision: the edit leaves the counter as it is
NextRevisionSame(rev) == rev

\* line 144: self._revision += 1
NextRevision(rev) == rev + 1

OnTextAreaChanged(text) ==
  /\ revision' = NextRevision(revision)
  /\ editorText' = text
  /\ ScheduleEstimate
  /\ UNCHANGED <<config, defaultProject, defaultLocation, lastDryRun, cacheTables,
                 cacheFile, history, screens, lastJob, publishedRev, call>>

ActionEstimate ==
  /\ revision' = revision
  /\ ScheduleEstimate
  /\ UNCHANGED <<editorText, config, defaultProject, defaultLocation, lastDryRun,
                 cacheTables, cacheFile, history, screens, lastJob, publishedRev,
                 call>>

\* TableMetaCache.save: the file holds the schema version and the whole map
SavedCache(tables) == FileHolding(CacheSave(tables, config.cache.schema_version))

\* action_refresh_meta, lines 135-139
RefreshMeta ==
  /\ cacheTables' = <<>>
  /\ cacheFile' = SavedCache(<<>>)
  /\ revision' = revision
  /\ ScheduleEstimate
  /\ UNCHANGED <<editorText, config, defaultProject, defaultLocation, lastDryRun,
                 history, screens, lastJob, publishedRev>>

ActionRefreshMeta == RefreshMeta /\ UNCHANGED call

\* SettingsModal.on_button_pressed("save") and _handle_settings_save: input
\* that does not parse dismisses the dialog with None and nothing is saved
HandleSettingsSave(input) ==
  /\ input[1] # <<>> /\ input[2] # <<>>
  /\ config' = SavedConfig(config, input)
  /\ defaultLocation' = LocationFallback
  /\ revision' = revision
  /\ ScheduleEstimate
  /\ UNCHANGED <<editorText, defaultProject, lastDryRun, cacheTables, cacheFile,
                 history, screens, lastJob, publishedRev, call>>

(***************************************************************************)
(* app.py: _debounced_estimate, _run_dry_run, _review_flow                 *)
(***************************************************************************)
IsBlank(sql) == Strip(sql) = <<>>

\* mutant of StartRun: a blank text is handed to the dry-run as well
StartRunBlankToo(task, rev) == Task(task.kind, rev, "dryrun", editorText, "dryrun")

\* lines 172-188: the run reads the editor; blank SQL ends it, otherwise the
\* dry-run is handed to a worker thread
StartRun(task, rev) ==
  IF IsBlank(editorText)
    THEN Ended
    ELSE Task(task.kind, rev, "dryrun", editorText, "dryrun")

\* line 156: the wake-up check of _debounced_estimate
WakeCheck(rev) == rev = revision

\* _debounced_estimate after asyncio.sleep(delay) returned
Wake(t) ==
  /\ tasks[t].kind = "debounce"
  /\ tasks[t].pc = "sleep"
  /\ IF WakeCheck(tasks[t].revision)
       THEN /\ Settle([tasks EXCEPT ![t] = StartRun(tasks[t], tasks[t].revision)], estimateTask)
       ELSE /\ Settle([tasks EXCEPT ![t] = Ended], estimateTask)
  /\ UNCHANGED <<revision, editorText, config, defaultProject, defaultLocation,
                 lastDryRun, cacheTables, cacheFile, history, screens, lastJob,
                 publishedRev, call, created>>

\* action_review: the task runs _review_flow, which calls
\* _run_dry_run(self._revision)
ActionReview ==
  /\ created < MaxTasks
  /\ created' = created + 1
  /\ Settle(Append(tasks, StartRun(Task("review", revision, "sleep", <<>>, "none"),
                                   revision)),
            estimateTask)
  /\ UNCHANGED <<revision, editorText, config, defaultProject, defaultLocation,
                 lastDryRun, cacheTables, cacheFile, history, screens, lastJob,
                 publishedRev, call>>

HistoryRecord(sql, status) ==
  [project |-> defaultProject, location |-> defaultLocation, sql |-> sql,
   status |-> status]

\* mutant of DryRunFailed: the failure is not recorded in the audit log
DryRunFailedUnrecorded(t) ==
  /\ history' = history
  /\ lastDryRun' = <<DryRunState(tasks[t].sql, <<>>, <<>>, <<>>, <<>>)>>
  /\ publishedRev' = <<tasks[t].revision>>
  /\ Settle([tasks EXCEPT ![t] = Ended], estimateTask)

\* lines 189-201: the dry-run raised
DryRunFailed(t) ==
  /\ history' = Append(history, HistoryRecord(tasks[t].sql, "DRYRUN_FAILED"))
  /\ lastDryRun' = <<DryRunState(tasks[t].sql, <<>>, <<>>, <<>>, <<>>)>>
  /\ publishedRev' = <<tasks[t].revision>>
  /\ Settle([tasks EXCEPT ![t] = Ended], estimateTask)

\* mutant of PostDryRunCheck: the run goes on whatever the revision is
PostDryRunCheckSkipped(rev) == TRUE

\* line 202: the checkpoint after the dry-run
PostDryRunCheck(rev) == rev = revision

\* lines 202-207: the dry-run returned; the metadata fill is handed to a
\* worker thread
DryRunSucceeded(t, outcome) ==
  /\ IF PostDryRunCheck(tasks[t].revision)
       THEN Settle([tasks EXCEPT
              ![t].pc = "meta",
              ![t].thread = "meta",
              ![t].dry = <<outcome>>,
              ![t].refs = SelectTables(outcome.referenced_tables,
                                       ExtractTablesOnce[tasks[t].sql][defaultProject])],
                   estimateTask)
       ELSE Settle([tasks EXCEPT ![t] = Ended], estimateTask)
  /\ UNCHANGED <<history, lastDryRun, publishedRev>>

\* the worker thread of the dry-run call ends and the run resumes
DryRunReturn(t, outcome) ==
  /\ tasks[t].thread = "dryrun"
  /\ IF outcome.ok THEN DryRunSucceeded(t, outcome) ELSE DryRunFailed(t)
  /\ UNCHANGED <<revision, editorText, config, defaultProject, defaultLocation,
                 cacheTables, cacheFile, screens, lastJob, call, created>>

(***************************************************************************)
(* app.py: _ensure_table_metadata, run in a worker thread                  *)
(***************************************************************************)

\* table.split(".") unpacks into project, dataset, table_name
SplitsInThree(table) == Cardinality({i \in DOMAIN table : table[i] = "."}) = 2

\* TableMetaCache.now_ts(): the time of the fetch
NowTs == "now"

\* mutant of EnsureLoop: the first table that cannot be resolved ends the
\* loop
RECURSIVE EnsureLoopAborting(_, _, _, _)
EnsureLoopAborting(tables, fetched, i, acc) ==
  IF i > Len(tables) THEN acc
  ELSE
    LET table == tables[i]
        cached == DictGet(acc.tables, table)
        meta == [ExtractPartitionInfo(fetched[table][1]) EXCEPT !.last_seen_ts = NowTs]
    IN IF cached # <<>>
         THEN EnsureLoopAborting(tables, fetched, i + 1,
                [acc EXCEPT !.result = DictPut(acc.result, table, cached[1])])
       ELSE IF ~SplitsInThree(table) \/ fetched[table] = <<>>
         THEN acc
       ELSE EnsureLoopAborting(tables, fetched, i + 1,
              [tables |-> DictPut(acc.tables, table, meta),
               result |-> DictPut(acc.result, table, meta),
               cache_updated |-> TRUE])

\* lines 239-256: the loop over tables from index i on.  fetched[table] is
\* what fetch_table_metadata returns for the table, <<>> when it raises; acc
\* holds the cache map, the result and cache_updated so far
RECURSIVE EnsureLoop(_, _, _, _)
EnsureLoop(tables, fetched, i, acc) ==
  IF i > Len(tables) THEN acc
  ELSE
    LET table == tables[i]
        cached == DictGet(acc.tables, table)
        meta == [ExtractPartitionInfo(fetched[table][1]) EXCEPT !.last_seen_ts = NowTs]
    IN IF cached # <<>>
         THEN EnsureLoop(tables, fetched, i + 1,
                [acc EXCEPT !.result = DictPut(acc.result, table, cached[1])])
       ELSE IF ~SplitsInThree(table) \/ fetched[table] = <<>>
         THEN EnsureLoop(tables, fetched, i + 1, acc)
       ELSE EnsureLoop(tables, fetched, i + 1,
              [tables |-> DictPut(acc.tables, table, meta),
               result |-> DictPut(acc.result, table, meta),
               cache_updated |-> TRUE])

\* _ensure_table_metadata, lines 235-256, on the cache map cache: the cache
\* map it leaves, the result it returns and whether it goes on to save
EnsureTableMetadata(tables, fetched, cache) ==
  EnsureLoop(tables, fetched, 1,
             [tables |-> cache, result |-> <<>>, cache_updated |-> FALSE])

(***************************************************************************)
(* app.py: the rest of _run_dry_run and of _review_flow                    *)
(***************************************************************************)
\* mutant of AssembleState: the state takes its SQL from the editor as it is
\* when the run publishes
AssembleStateLiveSql(task, table_meta) ==
  LET findings == PolicyChecksOnce[task.sql][config][task.dry[1].bytes_processed]
      partition == IF config.policy.enforce_partition_filter
                     THEN EnforcePartitionFilters(task.sql, task.refs, table_meta, config)
                     ELSE [findings |-> <<>>, summary |-> <<>>]
  IN DryRunState(editorText, task.dry[1].bytes_processed, task.refs,
                 findings \o partition.findings, partition.summary)

\* lines 208-222: the state the run assembles
AssembleState(task, table_meta) ==
  LET findings == PolicyChecksOnce[task.sql][config][task.dry[1].bytes_processed]
      partition == IF config.policy.enforce_partition_filter
                     THEN EnforcePartitionFilters(task.sql, task.refs, table_meta, config)
                     ELSE [findings |-> <<>>, summary |-> <<>>]
  IN DryRunState(task.sql, task.dry[1].bytes_processed, task.refs,
                 findings \o partition.findings, partition.summary)

HasSeverity(findings, severity) ==
  \E i \in DOMAIN findings : findings[i].severity = severity

\* lines 289-314: the audit record of a review
ReviewRecord(dry_state) ==
  [project |-> defaultProject, location |-> defaultLocation, sql |-> dry_state.sql,
   dry_run_bytes |-> dry_state.bytes_processed,
   referenced_tables |-> dry_state.referenced_tables,
   findings |-> dry_state.findings,
   status |-> IF HasSeverity(dry_state.findings, "ERROR") THEN "BLOCKED" ELSE "REVIEWED"]

\* mutant of ReviewModal: the dialog executes the text of the editor
ReviewModalEditorSql(dry_state) ==
  [data |-> [bytes_human |-> HumanBytesOnce[IF dry_state.bytes_processed = <<>>
                                              THEN 0 ELSE dry_state.bytes_processed[1]],
             bytes_processed |-> dry_state.bytes_processed,
             findings |-> dry_state.findings,
             referenced_tables |-> dry_state.referenced_tables,
             partition_summary |-> dry_state.partition_summary],
   allow_execute_with_warnings |-> config.policy.allow_execute_with_warnings,
   sql |-> editorText,
   confirm_input |-> <<>>,
   execute_disabled |-> TRUE]

\* lines 281-288 and 319-325, ReviewModal.__init__
ReviewModal(dry_state) ==
  [data |-> [bytes_human |-> HumanBytesOnce[IF dry_state.bytes_processed = <<>>
                                              THEN 0 ELSE dry_state.bytes_processed[1]],
             bytes_processed |-> dry_state.bytes_processed,
             findings |-> dry_state.findings,
             referenced_tables |-> dry_state.referenced_tables,
             partition_summary |-> dry_state.partition_summary],
   allow_execute_with_warnings |-> config.policy.allow_execute_with_warnings,
   sql |-> dry_state.sql,
   confirm_input |-> <<>>,
   execute_disabled |-> TRUE]

\* the worker thread runs _ensure_table_metadata (lines 235-262) and the
\* run, unless cancelled, publishes (lines 208-225); a review goes on to the
\* dialog.  The fill of one run is one step
FillDone(t, fetched) ==
  LET task == tasks[t]
      fill == EnsureTableMetadata(task.refs, fetched, cacheTables)
      state == AssembleState(task, fill.result)
  IN /\ task.thread = "meta"
     /\ cacheTables' = fill.tables
     /\ cacheFile' = IF fill.cache_updated THEN SavedCache(fill.tables) ELSE cacheFile
     /\ Settle([tasks EXCEPT ![t] = Ended], estimateTask)
     /\ IF task.pc = "cancelled"
          THEN UNCHANGED <<lastDryRun, publishedRev, history, screens>>
          ELSE /\ lastDryRun' = <<state>>
               /\ publishedRev' = <<task.revision>>
               /\ IF task.kind = "review"
                    THEN /\ history' = Append(history, ReviewRecord(state))
                         /\ screens' = Append(screens, ReviewModal(state))
                    ELSE UNCHANGED <<history, screens>>
     /\ UNCHANGED <<revision, editorText, config, defaultProject,
                    defaultLocation, lastJob, call, created>>

(***************************************************************************)
(* ui/modals.py: ReviewModal, and app.py: _execute_query                   *)
(***************************************************************************)
\* ReviewModal.on_input_changed: the new value of execute_button.disabled
ExecuteDisabled(modal, value) ==
  IF HasSeverity(modal.data.findings, "ERROR") THEN TRUE
  ELSE IF ~modal.allow_execute_with_warnings /\ HasSeverity(modal.data.findings, "WARN")
    THEN TRUE
  ELSE Strip(value) # Run \o modal.data.bytes_human

TopScreen == screens[Len(screens)]

\* what the user may type into the confirmation input of the top dialog
TypedConfirmations ==
  IF screens = <<>> THEN {} ELSE ConfirmInputs(Run \o TopScreen.data.bytes_human)

ReviewInputChanged(value) ==
  /\ screens # <<>>
  /\ screens' = [screens EXCEPT ![Len(screens)] =
                   [TopScreen EXCEPT !.confirm_input = value,
                                     !.execute_disabled = ExecuteDisabled(TopScreen, value)]]
  /\ UNCHANGED <<revision, editorText, config, defaultProject, defaultLocation,
                 estimateTask, tasks, lastDryRun, cacheTables, cacheFile,
                 history, lastJob, publishedRev, call, created>>

\* on_button_pressed("close")
ReviewPressClose ==
  /\ screens # <<>>
  /\ screens' = SubSeq(screens, 1, Len(screens) - 1)
  /\ UNCHANGED <<revision, editorText, config, defaultProject, defaultLocation,
                 estimateTask, tasks, lastDryRun, cacheTables, cacheFile,
                 history, lastJob, publishedRev, call, created>>

\* on_button_pressed("execute"), which a disabled button does not send:
\* _execute starts the task of _execute_query(dry_state.sql)
ReviewPressExecute ==
  /\ screens # <<>>
  /\ ~TopScreen.execute_disabled
  /\ created < MaxTasks
  /\ created' = created + 1
  /\ Settle(Append(tasks, Task("execute", 0, "exec", TopScreen.sql, "none")),
            estimateTask)
  /\ screens' = SubSeq(screens, 1, Len(screens) - 1)
  /\ UNCHANGED <<revision, editorText, config, defaultProject, defaultLocation,
                 lastDryRun, cacheTables, cacheFile, history, lastJob,
                 publishedRev, call>>

\* lines 333-351 and 356-365: execute_query returned a job or raised
ExecuteReturn(t, ok) ==
  /\ tasks[t].kind = "execute"
  /\ tasks[t].pc = "exec"
  /\ IF ok
       THEN /\ lastJob' = <<tasks[t].sql>>
            /\ history' = Append(history,
                 [project |-> defaultProject, location |-> defaultLocation,
                  sql |-> tasks[t].sql, job_id |-> tasks[t].sql, status |-> "EXECUTED"])
            /\ Settle([tasks EXCEPT ![t].pc = "result"], estimateTask)
       ELSE /\ lastJob' = lastJob
            /\ history' = Append(history, HistoryRecord(tasks[t].sql, "EXEC_FAILED"))
            /\ Settle([tasks EXCEPT ![t] = Ended], estimateTask)
  /\ UNCHANGED <<revision, editorText, config, defaultProject, defaultLocation,
                 lastDryRun, cacheTables, cacheFile, screens, publishedRev, call,
                 created>>

\* lines 352-365: job.result and the preview were fetched, or one raised
ExecuteResult(t, ok) ==
  /\ tasks[t].kind = "execute"
  /\ tasks[t].pc = "result"
  /\ history' = IF ok THEN history
                ELSE Append(history, HistoryRecord(tasks[t].sql, "EXEC_FAILED"))
  /\ Settle([tasks EXCEPT ![t] = Ended], estimateTask)
  /\ UNCHANGED <<revision, editorText, config, defaultProject, defaultLocation,
                 lastDryRun, cacheTables, cacheFile, screens, lastJob,
                 publishedRev, call, created>>

Next ==
  \/ \E text \in EditorTexts : OnTextAreaChanged(text)
  \/ ActionEstimate
  \/ ActionRefreshMeta
  \/ \E input \in SettingsInputs : HandleSettingsSave(input)
  \/ ActionReview
  \/ \E t \in DOMAIN tasks : Wake(t)
  \/ \E t \in DOMAIN tasks : \E outcome \in DryRunOutcomes : DryRunReturn(t, outcome)
  \/ \E t \in DOMAIN tasks :
       \E fetched \in [SeqRange(tasks[t].refs) -> FetchOutcomes] : FillDone(t, fetched)
  \/ \E value \in TypedConfirmations : ReviewInputChanged(value)
  \/ ReviewPressClose
  \/ ReviewPressExecute
  \/ \E t \in DOMAIN tasks : \E ok \in BOOLEAN : ExecuteReturn(t, ok)
  \/ \E t \in DOMAIN tasks : \E ok \in BOOLEAN : ExecuteResult(t, ok)

Spec == Init /\ [][Next]_vars

(***************************************************************************)
(* The scheduler, checked under Spec.                                      *)
(***************************************************************************)
\* the debounce waits among the tasks ts
Waits(ts) == {i \in DOMAIN ts : ts[i].pc = "sleep"}

\* the dry-run calls issued by woken debounce waits among the tasks ts
DebounceCalls(ts) ==
  {i \in DOMAIN ts : ts[i].kind = "debounce" /\ ts[i].thread = "dryrun"}

\* the runs past their debounce wait among the tasks ts: those in the
\* dry-run call or in the metadata fill, worker threads included
InFlight(ts) == {i \in DOMAIN ts : ts[i].thread \in {"dryrun", "meta"}}

\* the metadata fills among the tasks ts
Fills(ts) == {i \in DOMAIN ts : ts[i].thread = "meta"}

\* the editor was edited in this step
Edited == \E text \in EditorTexts : OnTextAreaChanged(text)

\* the state st was computed from a dry-run that succeeded
Computed(st) == st # <<>> /\ st[1].bytes_processed # <<>>

\* C1: a run whose captured revision differs from the live revision, at the
\* checkpoint after the dry-run or when it is about to publish, leaves
\* _last_dry_run unchanged: every step that writes a computed state to
\* _last_dry_run is taken by a run that captured the live revision.
C1_StaleRunDiscards ==
  [][lastDryRun' # lastDryRun /\ Computed(lastDryRun')
       => publishedRev' = <<revision>>]_vars

\* C2: the computed state of an earlier run is never written over that of a
\* later edit's run: the revisions of successively published computed
\* states never decrease.
C2_PublishedRevisionsNeverDecrease ==
  [][Computed(lastDryRun) /\ Computed(lastDryRun')
       => publishedRev'[1] >= publishedRev[1]]_vars

\* C3: no two runs are ever at once past their debounce wait, in the dry-run
\* call or in the metadata fill, worker threads included.
C3_AtMostOneRunInFlight == Cardinality(InFlight(tasks)) <= 1

\* C4: at most one debounce wait is outstanding; an edit cancels the
\* outstanding wait and schedules one for the new revision, writing nothing
\* else; a dry-run call of a debounced run is issued only by the wait, with
\* the live revision equal to the revision it was scheduled for; a wait that
\* ends without a dry-run call writes no state, no cache and no audit
\* record.  With one wait at most, the edits before a wake-up cause at most
\* one dry-run call.
C4_Debounce ==
  [][/\ Cardinality(Waits(tasks')) <= 1
     /\ Edited =>
          /\ estimateTask' \in Waits(tasks')
          /\ tasks'[estimateTask'].revision = revision'
          /\ \A i \in Waits(tasks) : tasks[i] \notin SeqRange(tasks')
          /\ Cardinality(DebounceCalls(tasks')) <= Cardinality(DebounceCalls(tasks))
          /\ UNCHANGED <<lastDryRun, history, cacheTables, cacheFile, screens, lastJob>>
     /\ Cardinality(DebounceCalls(tasks')) > Cardinality(DebounceCalls(tasks)) =>
          /\ \E i \in Waits(tasks) : tasks[i].revision = revision
          /\ Waits(tasks') = {}
          /\ Cardinality(DebounceCalls(tasks')) = Cardinality(DebounceCalls(tasks)) + 1
          /\ revision' = revision
     /\ /\ Waits(tasks) # {}
        /\ Waits(tasks') = {}
        /\ Cardinality(DebounceCalls(tasks')) <= Cardinality(DebounceCalls(tasks))
        => UNCHANGED <<lastDryRun, history, cacheTables, cacheFile, screens, lastJob>>
    ]_vars

\* two edits, then the wake-up of the one wait left: one dry-run call, for
\* the second revision
C4_Witness ==
  /\ revision = 2
  /\ created = 2
  /\ Len(tasks) = 1
  /\ tasks[1].kind = "debounce"
  /\ tasks[1].thread = "dryrun"
  /\ tasks[1].revision = 2

\* C5: an edit of the editor increases the revision counter by exactly one,
\* and no other step changes it.
C5_RevisionCounter ==
  [][/\ Edited => revision' = revision + 1
     /\ ~Edited => revision' = revision]_vars

\* two edits, a run that failed and an explicit re-estimate
C5_Witness ==
  /\ revision = 2
  /\ created = 3
  /\ lastDryRun # <<>>

\* C6: when the dry-run call of a run fails, _last_dry_run becomes the
\* unknown state for the SQL of the run (no bytes, no tables, no findings, no
\* summary), exactly one record DRYRUN_FAILED is appended to the audit log,
\* the cache is neither read into a result nor written, no dialog is shown
\* and the run ends: it issues no metadata fetch and no further dry-run
\* call.
C6_DryRunFailure ==
  [][\A t \in DOMAIN tasks :
       DryRunReturn(t, [ok |-> FALSE]) =>
         /\ lastDryRun' = <<[sql |-> tasks[t].sql, bytes_processed |-> <<>>,
                             referenced_tables |-> <<>>, findings |-> <<>>,
                             partition_summary |-> <<>>]>>
         /\ Len(history') = Len(history) + 1
         /\ SubSeq(history', 1, Len(history)) = history
         /\ history'[Len(history')].status = "DRYRUN_FAILED"
         /\ history'[Len(history')].sql = tasks[t].sql
         /\ UNCHANGED <<cacheTables, cacheFile, screens, revision, lastJob>>
         /\ Len(tasks') = Len(tasks) - 1
         /\ Cardinality(InFlight(tasks')) = Cardinality(InFlight(tasks)) - 1
         /\ Cardinality(Fills(tasks')) = Cardinality(Fills(tasks))
         /\ Waits(tasks') = {} <=> Waits(tasks) = {}]_vars

\* a dry-run has failed: the unknown state is published and the last audit
\* record is DRYRUN_FAILED
C6_Witness ==
  /\ lastDryRun # <<>>
  /\ lastDryRun[1].sql = SqlStar
  /\ lastDryRun[1].bytes_processed = <<>>
  /\ history # <<>>
  /\ history[Len(history)].status = "DRYRUN_FAILED"
  /\ tasks = <<>>

\* C7: in every review dialog the Execute control is enabled only if the
\* findings hold no ERROR, hold no WARN when allow_execute_with_warnings is
\* false, and the typed confirmation equals "RUN <bytes>"; and a review
\* dialog is shown only by a review whose dry-run succeeded and is not
\* stale.
C7_ExecuteOnlyAfterCleanFreshReview ==
  [][/\ \A i \in DOMAIN screens' :
          ~screens'[i].execute_disabled =>
            /\ ~HasSeverity(screens'[i].data.findings, "ERROR")
            /\ \/ screens'[i].allow_execute_with_warnings
               \/ ~HasSeverity(screens'[i].data.findings, "WARN")
            /\ screens'[i].confirm_input = Run \o screens'[i].data.bytes_human
     /\ Len(screens') > Len(screens) =>
          /\ publishedRev' = <<revision>>
          /\ Computed(lastDryRun')]_vars

(***************************************************************************)
(* Inputs of the partition enforcement: SQL texts made of at most MaxFrags *)
(* fragments, lists of at most MaxRefs referenced tables, every metadata   *)
(* map over the tables, every exemption list.                              *)
(***************************************************************************)
PartFrags ==
  { K_PARTITIONDATE,
    <<"_", "p", "a", "r", "t", "i", "t", "i", "o", "n", "t", "i", "m", "e">>,
    ColEventDate,
    <<"E", "v", "e", "n", "t", "_", "D", "a", "t", "e">>,
    <<"x">>,
    <<" ">> }

RECURSIVE Flatten(_)
Flatten(ss) == IF ss = <<>> THEN <<>> ELSE Head(ss) \o Flatten(Tail(ss))

SeqsUpTo(S, n) == UNION {[1..k -> S] : k \in 0..n}

PartSqls == {Flatten(fs) : fs \in SeqsUpTo(PartFrags, MaxFrags)}

RefLists == SeqsUpTo(Tables, MaxRefs)

Descriptors ==
  { TableMeta("none", <<>>, FALSE, ""),
    TableMeta("time", <<K_PARTITIONDATE>>, TRUE, ""),
    TableMeta("time", <<ColEventDate>>, FALSE, ""),
    TableMeta("time", <<>>, FALSE, "") }

MetaMaps == UNION {[D -> Descriptors] : D \in SUBSET Tables}

ExemptLists == {<<>>, <<TableT>>, <<TableU>>, <<TableT, TableU>>}

InitPartition ==
  /\ InitAppState
  /\ config = LoadedConfig
  /\ \E sql \in PartSqls, refs \in RefLists, meta \in MetaMaps, ex \in ExemptLists :
    call = [fn |-> "enforce_partition_filters",
            args |-> [sql |-> sql, referenced_tables |-> refs, table_meta |-> meta,
                      config |-> [LoadedConfig EXCEPT
                                    !.exceptions.partition_exempt_tables = ex]],
            ret |-> <<>>]

ApplyEnforce ==
  /\ call.fn = "enforce_partition_filters"
  /\ call.ret = <<>>
  /\ call' = [call EXCEPT !.ret =
               <<EnforcePartitionFilters(call.args.sql, call.args.referenced_tables,
                                         call.args.table_meta, call.args.config)>>]

NextPartition == ApplyEnforce /\ UNCHANGED appVars

SpecPartition == InitPartition /\ [][NextPartition]_vars

(***************************************************************************)
(* Vocabulary of the partition claims.                                     *)
(***************************************************************************)
EnforceReturned == call.fn = "enforce_partition_filters" /\ call.ret # <<>>

CountIn(s, x) == Cardinality({i \in DOMAIN s : s[i] = x})

FindingsFor(findings, t) == {i \in DOMAIN findings : findings[i].table = <<t>>}

\* w stands in s as a whole word: an occurrence of w that no word character
\* precedes or follows (w is an identifier); fold maps a character to the
\* form under which characters are compared
IsWholeWordIn(s, w, fold(_)) ==
  \E p \in 0..(Len(s) - Len(w)) :
    /\ \A j \in 1..Len(w) : fold(s[p + j]) = fold(w[j])
    /\ (p >= 1 => s[p] \notin WordChars)
    /\ (p + Len(w) < Len(s) => s[p + Len(w) + 1] \notin WordChars)

Same(c) == c

Exempt(args) == SeqRange(args.config.exceptions.partition_exempt_tables)

\* the result for table t is: no finding and n summary lines t \o line, or
\* n findings f and n summary lines t \o line (n = occurrences of t in the
\* list, 1 when the list is the ordered set of the contract)
TableOutcome(t, missing, evidence, line) ==
  LET res == call.ret[1]
      n == CountIn(call.args.referenced_tables, t)
  IN /\ Cardinality(FindingsFor(res.findings, t)) = IF missing THEN n ELSE 0
     /\ \A i \in FindingsFor(res.findings, t) :
          res.findings[i] = [severity |-> "ERROR", code |-> "PARTITION_MISSING",
                             message |-> <<"MSG_PARTITION_FILTER_REQUIRED">>,
                             evidence |-> <<evidence>>, table |-> <<t>>]
     /\ CountIn(res.summary, t \o line) = n
     /\ \A i \in DOMAIN res.summary :
          SubSeq(res.summary[i], 1, Len(t)) = t => res.summary[i] = t \o line

\* C8: for every referenced, non-exempt table whose descriptor is
\* ingestion-time (partition type not none), enforce emits exactly one ERROR
\* PARTITION_MISSING with evidence "_PARTITIONDATE/_PARTITIONTIME", the table
\* set and summary "<table>: missing _PARTITIONDATE/_PARTITIONTIME" if the SQL
\* contains neither pseudo-column as a whole word, case-insensitively;
\* otherwise no finding and summary "<table>: ok".
C8_IngestionTimeEnforced ==
  EnforceReturned =>
    \A t \in SeqRange(call.args.referenced_tables) :
      ( /\ t \notin Exempt(call.args)
        /\ t \in DOMAIN call.args.table_meta
        /\ call.args.table_meta[t].ingestion_time
        /\ call.args.table_meta[t].partition_type # "none" ) =>
        IF \/ IsWholeWordIn(call.args.sql, K_PARTITIONDATE, Lower)
           \/ IsWholeWordIn(call.args.sql, K_PARTITIONTIME, Lower)
          THEN TableOutcome(t, FALSE, EvidencePseudoColumns, LineOk)
          ELSE TableOutcome(t, TRUE, EvidencePseudoColumns,
                            LineMissing \o EvidencePseudoColumns)

C8_Witness ==
  /\ EnforceReturned
  /\ call.args.referenced_tables = <<TableT, TableU>>
  /\ Exempt(call.args) = {}
  /\ DOMAIN call.args.table_meta = Tables
  /\ call.args.table_meta[TableT].ingestion_time
  /\ call.args.sql = <<"x">> \o K_PARTITIONDATE
  /\ \E i \in DOMAIN call.ret[1].findings :
       /\ call.ret[1].findings[i].table = <<TableT>>
       /\ call.ret[1].findings[i].evidence = <<EvidencePseudoColumns>>

IsColumnPartitioned(args, t) ==
  /\ t \notin Exempt(args)
  /\ t \in DOMAIN args.table_meta
  /\ args.table_meta[t].partition_type # "none"
  /\ ~args.table_meta[t].ingestion_time
  /\ args.table_meta[t].partition_key # <<>>

\* C9 as stated: the column counts as present only when the SQL contains K
\* itself (the same characters) as a whole word.
C9_AsStated ==
  EnforceReturned =>
    \A t \in SeqRange(call.args.referenced_tables) :
      IsColumnPartitioned(call.args, t) =>
        LET K == call.args.table_meta[t].partition_key[1]
        IN IF IsWholeWordIn(call.args.sql, K, Same)
             THEN TableOutcome(t, FALSE, K, LineOk)
             ELSE TableOutcome(t, TRUE, K, LineMissing \o K)

\* C9 (amended): for every referenced, non-exempt table whose descriptor is
\* partitioned, not ingestion-time, with partition column K, enforce emits
\* exactly one ERROR PARTITION_MISSING with evidence K, the table set and
\* summary "<table>: missing K" if the SQL does not contain K as a whole word
\* compared case-insensitively; otherwise no finding and summary "<table>: ok".
C9_ColumnEnforced ==
  EnforceReturned =>
    \A t \in SeqRange(call.args.referenced_tables) :
      IsColumnPartitioned(call.args, t) =>
        LET K == call.args.table_meta[t].partition_key[1]
        IN IF IsWholeWordIn(call.args.sql, K, Lower)
             THEN TableOutcome(t, FALSE, K, LineOk)
             ELSE TableOutcome(t, TRUE, K, LineMissing \o K)

C9_Witness ==
  /\ EnforceReturned
  /\ call.args.referenced_tables = <<TableU>>
  /\ IsColumnPartitioned(call.args, TableU)
  /\ call.args.sql = ColEventDate \o <<"x">>
  /\ Len(call.ret[1].findings) = 1
  /\ call.ret[1].findings[1].evidence = <<ColEventDate>>
  /\ call.ret[1].summary = <<TableU \o LineMissing \o ColEventDate>>

\* C10: a referenced table that is in exemptTables produces the summary line
\* "<table>: exempt" and no finding, whatever the SQL and whatever its cached
\* descriptor (present or absent).
C10_ExemptTable ==
  EnforceReturned =>
    \A t \in SeqRange(call.args.referenced_tables) :
      t \in Exempt(call.args) =>
        TableOutcome(t, FALSE, <<>>, LineExempt)

C10_Witness ==
  /\ EnforceReturned
  /\ call.args.referenced_tables = <<TableT>>
  /\ TableT \in Exempt(call.args)
  /\ TableT \in DOMAIN call.args.table_meta
  /\ call.args.table_meta[TableT].partition_key = <<ColEventDate>>
  /\ call.args.sql = <<"x">>
  /\ call.ret[1] = [findings |-> <<>>, summary |-> <<TableT \o LineExempt>>]

\* C11: with an empty list of referenced tables enforce returns exactly one
\* finding, WARN PARTITION_TABLES_UNKNOWN, and an empty summary, whatever the
\* SQL, the metadata map and the exemption list are.
C11_UnknownTables ==
  EnforceReturned /\ call.args.referenced_tables = <<>> =>
    /\ Len(call.ret[1].findings) = 1
    /\ call.ret[1].findings[1].severity = "WARN"
    /\ call.ret[1].findings[1].code = "PARTITION_TABLES_UNKNOWN"
    /\ call.ret[1].findings[1].evidence = <<>>
    /\ call.ret[1].findings[1].table = <<>>
    /\ call.ret[1].summary = <<>>

C11_Witness ==
  /\ EnforceReturned
  /\ call.args.referenced_tables = <<>>
  /\ call.args.sql = K_PARTITIONDATE
  /\ DOMAIN call.args.table_meta = Tables
  /\ Exempt(call.args) = Tables
  /\ Len(call.ret[1].findings) = 1

\* C12: for a referenced, non-exempt table that has no descriptor in the
\* metadata map, or whose descriptor has partition type none, enforce appends
\* the summary line "<table>: non-partition" and emits no finding, whatever
\* the SQL.
C12_NonPartition ==
  EnforceReturned =>
    \A t \in SeqRange(call.args.referenced_tables) :
      ( /\ t \notin Exempt(call.args)
        /\ \/ t \notin DOMAIN call.args.table_meta
           \/ call.args.table_meta[t].partition_type = "none" ) =>
        TableOutcome(t, FALSE, <<>>, LineNonPartition)

C12_Witness ==
  /\ EnforceReturned
  /\ call.args.referenced_tables = <<TableT, TableU>>
  /\ Exempt(call.args) = {}
  /\ DOMAIN call.args.table_meta = {TableU}
  /\ call.args.table_meta[TableU].partition_type = "none"
  /\ call.ret[1] = [findings |-> <<>>,
                    summary |-> <<TableT \o LineNonPartition,
                                  TableU \o LineNonPartition>>]

(***************************************************************************)
(* The policy checks as pure functions: one call per behaviour, its        *)
(* arguments drawn by Init, its result stored by the action that applies   *)
(* the function.                                                           *)
(***************************************************************************)
\* estimates around the thresholds, None included
ByteInputs == {<<>>} \cup {<<n>> : n \in {0, 100, 499, 500, 600, 999, 1000, 1200}}

\* thresholds: warn < block is expected but not enforced (config.py 144-158)
Thresholds == {0, 500, 1000}

BytesCalls ==
  { [fn |-> "check_bytes",
     args |-> [bytes_processed |-> b, warn |-> w, block |-> k],
     ret |-> <<>>] : b \in ByteInputs, w \in Thresholds, k \in Thresholds }

\* texts for sanitize_sql: up to MaxPieces lexical units in a row, among them a
\* literal that holds a comment opener, comments that hold a quote or a
\* comment opener, an escaped quote, a line end
SanitizePieces ==
  { <<"o", "n">>, <<" ">>, <<"\n">>,
    <<"'", "o", "n", "'">>, <<"'", "-", "-", "'">>, <<"'", "/", "*", "'">>,
    <<"'", "'", "'", "'">>,
    <<Backtick, "o", "n", Backtick>>,
    <<"-", "-", "o", "n">>, <<"-", "-", "'">>,
    <<"/", "*", "o", "n", "*", "/">>, <<"/", "*", "'", "*", "/">>,
    <<"/", "*", "-", "-", "*", "/">> }

Texts(pieces) == {Flatten(fs) : fs \in SeqsUpTo(pieces, MaxPieces)}

SqlCalls(fn, pieces) ==
  {[fn |-> fn, args |-> [sql |-> sql], ret |-> <<>>] : sql \in Texts(pieces)}

SanitizeCalls == SqlCalls("sanitize_sql", SanitizePieces)

\* texts for check_cross_join: the join in two spellings, literals, comments
\* and an identifier around it
CrossJoinPieces ==
  { <<"C", "R", "O", "S", "S", " ", "J", "O", "I", "N">>,
    <<"c", "r", "o", "s", "s", "\n", "j", "o", "i", "n">>,
    <<" ">>, <<"\n">>, <<"a">>,
    <<"'", "-", "-", "'">>, <<"'", "/", "*", "'">>,
    <<"'", "C", "R", "O", "S", "S", " ", "J", "O", "I", "N", "'">>,
    <<"-", "-", "x">>, <<"/", "*", "x", "*", "/">>,
    <<Backtick, "x", Backtick>> }

CrossJoinCalls == SqlCalls("check_cross_join", CrossJoinPieces)

\* texts for check_select_star: the keyword with and without whitespace after
\* it, stars bare, qualified and inside a literal or a comment
SelectStarPieces ==
  { <<"S", "E", "L", "E", "C", "T", " ">>, <<"s", "e", "l", "e", "c", "t", "\n">>,
    <<"S", "E", "L", "E", "C", "T">>,
    <<"*">>, <<"t", ".", "*">>, <<"a">>, <<".">>, <<";">>, <<" ">>,
    <<"'", "*", "'">>, <<"-", "-", "*">>, <<"/", "*", "*", "/">> }

SelectStarCalls == SqlCalls("check_select_star", SelectStarPieces)

\* texts for check_suspect_join: JOIN, ON and USING as words, as parts of
\* longer words, and inside a literal, an identifier or a comment
SuspectJoinPieces ==
  { <<"J", "O", "I", "N", " ">>, <<"j", "o", "i", "n", "\n">>,
    <<"O", "N">>, <<"o", "n", " ">>, <<"U", "s", "i", "n", "g">>,
    <<"a">>, <<"(">>, <<" ">>,
    <<"'", "o", "n", "'">>, <<Backtick, "o", "n", Backtick>>,
    <<"-", "-", "o", "n">>, <<"/", "*", "u", "s", "i", "n", "g", "*", "/">> }

SuspectJoinCalls == SqlCalls("check_suspect_join", SuspectJoinPieces)

\* texts for check_multi_statement: statements, separators, the script
\* keywords as words and as parts of words, separators and keywords inside a
\* literal or a comment
MultiStatementPieces ==
  { <<"a">>, <<";">>, <<" ">>, <<"\n">>,
    <<"B", "E", "G", "I", "N">>, <<"e", "n", "d">>, <<"D", "e", "c", "l", "a", "r", "e">>,
    <<"'", ";", "'">>, <<"'", "e", "n", "d", "'">>,
    <<"-", "-", ";">>, <<"/", "*", ";", "*", "/">> }

MultiStatementCalls ==
  { [fn |-> "check_multi_statement", args |-> [sql |-> sql, block |-> block], ret |-> <<>>] :
      sql \in Texts(MultiStatementPieces), block \in BOOLEAN }

\* texts for check_ddl_dml: statement keywords in several letter cases, other
\* first tokens, and what may stand before the first token
DdlDmlPieces ==
  { <<"I", "N", "S", "E", "R", "T">>, <<"U", "p", "d", "a", "t", "e">>,
    <<"d", "r", "o", "p">>, <<"S", "E", "L", "E", "C", "T", " ">>,
    <<"W", "I", "T", "H", " ">>, <<"(">>, <<" ">>, <<"\n">>, <<"a">>,
    <<"'", "x", "'">>, <<"-", "-", "x">>, <<"/", "*", "x", "*", "/">> }

DdlDmlCalls == SqlCalls("check_ddl_dml", DdlDmlPieces)

\* texts for run_policy_checks: each piece makes one or two checks fire
PolicyPieces ==
  { <<"d", "r", "o", "p", " ">>, <<";">>, <<"s", "e", "l", "e", "c", "t", " ", "*", " ">>,
    <<"c", "r", "o", "s", "s", " ", "j", "o", "i", "n", " ">>,
    <<"b", "e", "g", "i", "n", " ">> }

\* the five switches of config["policy"] that run_policy_checks reads: all
\* on, all off, or one of them off
PolicySwitches ==
  {f \in [1..5 -> BOOLEAN] : Cardinality({i \in 1..5 : ~f[i]}) \in {0, 1, 5}}

PolicyConfigs ==
  { [LoadedConfig EXCEPT !.policy.warn_select_star = f[1],
                         !.policy.warn_cross_join = f[2],
                         !.policy.warn_suspect_join = f[3],
                         !.policy.block_multi_statement = f[4],
                         !.policy.warn_ddl_dml = f[5]] : f \in PolicySwitches }

PolicyCalls ==
  { [fn |-> "run_policy_checks",
     args |-> [sql |-> sql, config |-> cfg, bytes_processed |-> b],
     ret |-> <<>>] :
      sql \in Texts(PolicyPieces), cfg \in PolicyConfigs, b \in {<<600>>, <<1200>>} }

\* the point of _run_dry_run after the metadata fill (line 207): the text of
\* the run, the dry-run result with its tables (those of the result, or the
\* ones extracted from the text when it names none) and the filled metadata
AssembleCalls(default_project) ==
  { [fn |-> "_run_dry_run",
     args |-> [task |-> [Task("estimate", 1, "meta", sql, "meta") EXCEPT
                           !.dry = <<DryRunResult(b, refs)>>,
                           !.refs = SelectTables(refs,
                                                 ExtractTablesOnce[sql][default_project])],
               table_meta |-> meta],
     ret |-> <<>>] :
      sql \in EditorTexts, b \in RunBytes, refs \in RefLists, meta \in MetaMaps }

\* texts that name tables: in full, in backticks, without project, twice
TablePieces ==
  { <<"p", ".", "d", ".", "t", " ">>,
    <<"p", ".", "d", ".", "u", " ">>,
    <<Backtick, "p", ".", "d", ".", "t", Backtick, " ">>,
    <<"d", ".", "t", " ">>,
    <<"x", " ">> }

ExtractTablesCalls ==
  { [fn |-> "_extract_tables",
     args |-> [sql |-> sql, default_project |-> default_project],
     ret |-> <<>>] :
      sql \in Texts(TablePieces), default_project \in {<<>>, <<<<"p">>>>} }

InitChecks ==
  /\ InitAppState
  /\ config = LoadedConfig
  /\ \/ call \in BytesCalls
     \/ call \in SanitizeCalls
     \/ call \in SelectStarCalls
     \/ call \in CrossJoinCalls
     \/ call \in SuspectJoinCalls
     \/ call \in MultiStatementCalls
     \/ call \in DdlDmlCalls
     \/ call \in PolicyCalls
     \/ call \in AssembleCalls(defaultProject)
     \/ call \in ExtractTablesCalls

\* the call of function fn has not returned yet
Pending(fn) == call.fn = fn /\ call.ret = <<>>

Return(value) == call' = [call EXCEPT !.ret = <<value>>] /\ UNCHANGED appVars

ApplyCheckBytes ==
  /\ Pending("check_bytes")
  /\ Return(CheckBytes(call.args.bytes_processed, call.args.warn, call.args.block))

ApplySanitizeSql ==
  /\ Pending("sanitize_sql")
  /\ Return(SanitizeSql(call.args.sql))

ApplyCheckCrossJoin ==
  /\ Pending("check_cross_join")
  /\ Return(CheckCrossJoin(call.args.sql))

ApplyCheckSelectStar ==
  /\ Pending("check_select_star")
  /\ Return(CheckSelectStar(call.args.sql))

ApplyCheckSuspectJoin ==
  /\ Pending("check_suspect_join")
  /\ Return(CheckSuspectJoin(call.args.sql))

ApplyCheckMultiStatement ==
  /\ Pending("check_multi_statement")
  /\ Return(CheckMultiStatement(call.args.sql, call.args.block))

ApplyCheckDdlDml ==
  /\ Pending("check_ddl_dml")
  /\ Return(CheckDdlDml(call.args.sql))

ApplyRunPolicyChecks ==
  /\ Pending("run_policy_checks")
  /\ Return(RunPolicyChecks(call.args.sql, call.args.config, call.args.bytes_processed))

\* lines 208-222 of _run_dry_run
ApplyAssemble ==
  /\ Pending("_run_dry_run")
  /\ Return(AssembleState(call.args.task, call.args.table_meta))

ApplyExtractTables ==
  /\ Pending("_extract_tables")
  /\ Return(ExtractTables(call.args.sql, call.args.default_project))

NextChecks ==
  \/ ApplyCheckBytes
  \/ ApplySanitizeSql
  \/ ApplyCheckSelectStar
  \/ ApplyCheckCrossJoin
  \/ ApplyCheckSuspectJoin
  \/ ApplyCheckMultiStatement
  \/ ApplyCheckDdlDml
  \/ ApplyRunPolicyChecks
  \/ ApplyAssemble
  \/ ApplyExtractTables

SpecChecks == InitChecks /\ [][NextChecks]_vars

\* the call of function fn has returned
Returned(fn) == call.fn = fn /\ call.ret # <<>>

\* the returned list holds exactly one finding of this severity and code
OneFinding(severity, code) ==
  /\ Len(call.ret[1]) = 1
  /\ call.ret[1][1].severity = severity
  /\ call.ret[1][1].code = code

\* C13: check_bytes returns no finding when the estimate is None or below
\* both thresholds, exactly one ERROR when it reaches block, exactly one WARN
\* when it reaches warn but not block; never two findings, also when
\* warn >= block.
C13_CheckBytes ==
  Returned("check_bytes") =>
    LET b == call.args.bytes_processed
        warn == call.args.warn
        block == call.args.block
    IN /\ Len(call.ret[1]) <= 1
       /\ b = <<>> => call.ret[1] = <<>>
       /\ b # <<>> /\ b[1] < warn /\ b[1] < block => call.ret[1] = <<>>
       /\ b # <<>> /\ b[1] >= block => OneFinding("ERROR", "BYTES_BLOCK")
       /\ b # <<>> /\ b[1] >= warn /\ b[1] < block => OneFinding("WARN", "BYTES_WARN")

C13_Witness ==
  /\ Returned("check_bytes")
  /\ call.args = [bytes_processed |-> <<1200>>, warn |-> 1000, block |-> 500]
  /\ OneFinding("ERROR", "BYTES_BLOCK")

\* The lexical reading the contract of sanitize refers to: the text is read
\* once from left to right; a quote opens a string literal that runs to the
\* next quote that is not doubled, a backtick opens an identifier that runs to
\* the next backtick, "--" opens a comment that runs to the end of the line,
\* "/*" opens a comment that runs to the next "*/".  The result holds the text
\* with every literal emptied and every comment removed, and the mode in which
\* the reading ends.
RECURSIVE Lexed(_, _, _)
Lexed(s, p, mode) ==
  IF p > Len(s) THEN [out |-> <<>>, mode |-> mode]
  ELSE
    LET emit(x, q, m) == LET rest == Lexed(s, q, m)
                         IN [out |-> x \o rest.out, mode |-> rest.mode]
    IN CASE mode = "text" ->
              IF s[p] = "'" THEN emit(<<"'", "'">>, p + 1, "string")
              ELSE IF s[p] = Backtick THEN emit(<<Backtick, Backtick>>, p + 1, "identifier")
              ELSE IF MatchesAt(s, p - 1, <<"-", "-">>) THEN emit(<<>>, p + 2, "line")
              ELSE IF MatchesAt(s, p - 1, <<"/", "*">>) THEN emit(<<>>, p + 2, "block")
              ELSE emit(<<s[p]>>, p + 1, "text")
         [] mode = "string" ->
              IF MatchesAt(s, p - 1, <<"'", "'">>) THEN emit(<<>>, p + 2, "string")
              ELSE IF s[p] = "'" THEN emit(<<>>, p + 1, "text")
              ELSE emit(<<>>, p + 1, "string")
         [] mode = "identifier" ->
              IF s[p] = Backtick THEN emit(<<>>, p + 1, "text")
              ELSE emit(<<>>, p + 1, "identifier")
         [] mode = "line" ->
              IF s[p] = "\n" THEN emit(<<"\n">>, p + 1, "text")
              ELSE emit(<<>>, p + 1, "line")
         [] mode = "block" ->
              IF MatchesAt(s, p - 1, <<"*", "/">>) THEN emit(<<>>, p + 2, "text")
              ELSE emit(<<>>, p + 1, "block")

\* every literal and every block comment of the text is closed
WellFormed(sql) == Lexed(sql, 1, "text").mode \in {"text", "line"}

\* C17: for a text whose literals and comments are all closed, sanitize_sql
\* returns the text with every string literal replaced by '', every backtick
\* identifier by an empty backtick pair, every line comment and every block
\* comment removed, and everything else unchanged, also when a literal holds
\* "--" or "/*" and when a comment holds a quote.
C17_SanitizeAsStated ==
  Returned("sanitize_sql") /\ WellFormed(call.args.sql) =>
    call.ret[1] = Lexed(call.args.sql, 1, "text").out

\* for every character of the text from index p on, whether it stands outside
\* string literals, backtick identifiers and comments in the left-to-right
\* reading (the delimiters belong to the literal or comment)
RECURSIVE Outside(_, _, _)
Outside(s, p, mode) ==
  IF p > Len(s) THEN <<>>
  ELSE
    LET skip(n, m) == [i \in 1..n |-> FALSE] \o Outside(s, p + n, m)
    IN CASE mode = "text" ->
              IF s[p] = "'" THEN skip(1, "string")
              ELSE IF s[p] = Backtick THEN skip(1, "identifier")
              ELSE IF MatchesAt(s, p - 1, <<"-", "-">>) THEN skip(2, "line")
              ELSE IF MatchesAt(s, p - 1, <<"/", "*">>) THEN skip(2, "block")
              ELSE <<TRUE>> \o Outside(s, p + 1, "text")
         [] mode = "string" ->
              IF MatchesAt(s, p - 1, <<"'", "'">>) THEN skip(2, "string")
              ELSE IF s[p] = "'" THEN skip(1, "text")
              ELSE skip(1, "string")
         [] mode = "identifier" ->
              IF s[p] = Backtick THEN skip(1, "text") ELSE skip(1, "identifier")
         [] mode = "line" ->
              IF s[p] = "\n" THEN <<TRUE>> \o Outside(s, p + 1, "text")
              ELSE skip(1, "line")
         [] mode = "block" ->
              IF MatchesAt(s, p - 1, <<"*", "/">>) THEN skip(2, "text")
              ELSE skip(1, "block")

\* the words CROSS and JOIN, in any letter case and separated by whitespace
\* only, stand in the text outside literals, identifiers and comments
CrossJoinOutside(sql) ==
  LET outside == Outside(sql, 1, "text")
  IN \E p \in 0..Len(sql), q \in 1..Len(sql) :
       /\ p + 5 < q
       /\ MatchesAtIgnoreCase(sql, p, KwCross)
       /\ MatchesAtIgnoreCase(sql, q, KwJoin)
       /\ \A i \in (p + 6)..q : sql[i] \in Whitespace
       /\ \A i \in (p + 1)..(q + 4) : outside[i]
       /\ p > 0 => ~IsWordChar(sql[p])
       /\ q + 4 < Len(sql) => ~IsWordChar(sql[q + 5])

\* C16: for a text that holds CROSS JOIN outside string literals, backtick
\* identifiers and comments, check_cross_join returns exactly one WARN
\* CROSS_JOIN, whatever literals and comments stand elsewhere in the text.
C16_CrossJoinAsStated ==
  /\ Returned("check_cross_join")
  /\ WellFormed(call.args.sql)
  /\ CrossJoinOutside(call.args.sql)
  => OneFinding("WARN", "CROSS_JOIN")

\* the text holds the word SELECT, in any letter case, then at least one
\* whitespace character, then a star
BareSelectStar(t) ==
  \E p \in 0..Len(t), q \in 1..Len(t) :
    /\ p + 7 < q
    /\ MatchesAtIgnoreCase(t, p, KwSelect)
    /\ p > 0 => ~IsWordChar(t[p])
    /\ \A i \in (p + 7)..(q - 1) : t[i] \in Whitespace
    /\ t[q] = "*"

\* the text holds a name, a dot and a star
QualifiedStar(t) ==
  \E q \in 3..Len(t) : t[q] = "*" /\ t[q - 1] = "." /\ IsWordChar(t[q - 2])

\* C15: whenever the sanitized text holds a bare SELECT * or a qualified
\* alias.*, check_select_star returns exactly one finding, a WARN SELECT_STAR;
\* it never returns an ERROR nor more than one finding.
C15_SelectStar ==
  Returned("check_select_star") =>
    LET sanitized == SanitizeSql(call.args.sql)
    IN /\ BareSelectStar(sanitized) \/ QualifiedStar(sanitized) =>
            OneFinding("WARN", "SELECT_STAR")
       /\ Len(call.ret[1]) <= 1
       /\ \A i \in DOMAIN call.ret[1] : call.ret[1][i].severity = "WARN"

C15_Witness ==
  /\ Returned("check_select_star")
  /\ BareSelectStar(SanitizeSql(call.args.sql))
  /\ QualifiedStar(SanitizeSql(call.args.sql))
  /\ OneFinding("WARN", "SELECT_STAR")

\* C18: check_suspect_join returns exactly one WARN SUSPECT_JOIN when the
\* sanitized text holds the word JOIN and neither the word ON nor the word
\* USING (in any letter case), and no finding otherwise; a text with several
\* joins and a single ON or USING is not flagged.
C18_SuspectJoin ==
  Returned("check_suspect_join") =>
    LET sanitized == SanitizeSql(call.args.sql)
        suspect == /\ IsWholeWordIn(sanitized, KwJoin, Lower)
                   /\ ~IsWholeWordIn(sanitized, KwOn, Lower)
                   /\ ~IsWholeWordIn(sanitized, KwUsing, Lower)
    IN IF suspect THEN OneFinding("WARN", "SUSPECT_JOIN") ELSE call.ret[1] = <<>>

\* two joins, one condition
C18_Witness ==
  /\ Returned("check_suspect_join")
  /\ call.args.sql = <<"J", "O", "I", "N", " ", "j", "o", "i", "n", "\n", "U", "s", "i", "n", "g">>
  /\ call.ret[1] = <<>>

\* the first characters of the non-empty fragments of t: the characters other
\* than whitespace and ";" that only whitespace separates from the preceding
\* ";" or from the start of the text
FragmentStarts(t) ==
  { i \in 1..Len(t) :
      /\ t[i] \notin Whitespace \cup {";"}
      /\ \A j \in 1..(i - 1) :
           (\A k \in j..(i - 1) : t[k] # ";") => t[j] \in Whitespace }

\* C14: check_multi_statement returns exactly one finding when the sanitized
\* text holds one of the words BEGIN, END, DECLARE, or when splitting it on
\* ";" leaves more than one non-empty fragment (code MULTI_STATEMENT then),
\* and no finding otherwise, as for one statement with a trailing ";"; the
\* severity is ERROR when block is true and WARN when it is false.
C14_MultiStatement ==
  Returned("check_multi_statement") =>
    LET sanitized == SanitizeSql(call.args.sql)
        script == \E w \in {KwBegin, KwEnd, KwDeclare} : IsWholeWordIn(sanitized, w, Lower)
        severity == IF call.args.block THEN "ERROR" ELSE "WARN"
    IN IF script THEN OneFinding(severity, "SCRIPT")
       ELSE IF Cardinality(FragmentStarts(sanitized)) > 1
         THEN OneFinding(severity, "MULTI_STATEMENT")
       ELSE call.ret[1] = <<>>

\* one statement, a trailing separator, no finding
C14_Witness ==
  /\ Returned("check_multi_statement")
  /\ call.args.sql = <<"a", ";", "\n">>
  /\ call.args.block
  /\ call.ret[1] = <<>>

\* the statement keywords the contract lists
StatementKeywords ==
  { <<"I", "N", "S", "E", "R", "T">>, <<"U", "P", "D", "A", "T", "E">>,
    <<"D", "E", "L", "E", "T", "E">>, <<"M", "E", "R", "G", "E">>,
    <<"C", "R", "E", "A", "T", "E">>, <<"D", "R", "O", "P">>,
    <<"A", "L", "T", "E", "R">>, <<"T", "R", "U", "N", "C", "A", "T", "E">> }

\* the first token of t, after leading whitespace, is the word w in some
\* letter case
LeadsWith(t, w) ==
  \E p \in 0..Len(t) :
    /\ \A i \in 1..p : t[i] \in Whitespace
    /\ MatchesAtIgnoreCase(t, p, w)
    /\ p + Len(w) < Len(t) => ~IsWordChar(t[p + Len(w) + 1])

\* C19: check_ddl_dml returns exactly one WARN DDL_DML when the first token
\* of the sanitized, trimmed text is one of INSERT, UPDATE, DELETE, MERGE,
\* CREATE, DROP, ALTER, TRUNCATE in any letter case, and no finding otherwise,
\* also when such a keyword stands later in the text.
C19_DdlDml ==
  Returned("check_ddl_dml") =>
    IF \E w \in StatementKeywords : LeadsWith(SanitizeSql(call.args.sql), w)
      THEN OneFinding("WARN", "DDL_DML")
      ELSE call.ret[1] = <<>>

\* SELECT first, DROP later: no finding
C19_Witness ==
  /\ Returned("check_ddl_dml")
  /\ call.args.sql = <<"S", "E", "L", "E", "C", "T", " ", "d", "r", "o", "p">>
  /\ call.ret[1] = <<>>

\* the place of the check that emits a finding code in the order bytes,
\* select-star, cross-join, suspect-join, multi-statement/script, DDL/DML;
\* 7 for the codes of partition enforcement
CheckOrder(code) ==
  CASE code \in {"BYTES_BLOCK", "BYTES_WARN"} -> 1
    [] code = "SELECT_STAR" -> 2
    [] code = "CROSS_JOIN" -> 3
    [] code = "SUSPECT_JOIN" -> 4
    [] code \in {"SCRIPT", "MULTI_STATEMENT"} -> 5
    [] code = "DDL_DML" -> 6
    [] code \in {"PARTITION_TABLES_UNKNOWN", "PARTITION_MISSING"} -> 7

\* the findings of the list that the k-th check emits
FromCheck(findings, k) ==
  LET IsFromCheck(f) == CheckOrder(f.code) = k
  IN SelectSeq(findings, IsFromCheck)

\* the findings of each sub-check on the arguments of the call, <<>> for a
\* check that the configuration switches off
SubCheck(k) ==
  LET sql == call.args.sql
      cfg == call.args.config
  IN CASE k = 1 -> CheckBytes(call.args.bytes_processed,
                              cfg.limits.warn_bytes, cfg.limits.block_bytes)
       [] k = 2 -> IF cfg.policy.warn_select_star THEN CheckSelectStar(sql) ELSE <<>>
       [] k = 3 -> IF cfg.policy.warn_cross_join THEN CheckCrossJoin(sql) ELSE <<>>
       [] k = 4 -> IF cfg.policy.warn_suspect_join THEN CheckSuspectJoin(sql) ELSE <<>>
       [] k = 5 -> CheckMultiStatement(sql, cfg.policy.block_multi_statement)
       [] k = 6 -> IF cfg.policy.warn_ddl_dml THEN CheckDdlDml(sql) ELSE <<>>

\* C20: the findings of run_policy_checks are those of the sub-checks in the
\* order bytes, select-star, cross-join, suspect-join, multi-statement/script,
\* DDL/DML, whatever their severities; the findings of the state that
\* _run_dry_run publishes are the policy findings followed by the findings of
\* partition enforcement in the order of the referenced tables.
C20_FindingsOrder ==
  /\ Returned("run_policy_checks") =>
       /\ \A i, j \in DOMAIN call.ret[1] :
            i < j => CheckOrder(call.ret[1][i].code) < CheckOrder(call.ret[1][j].code)
       /\ \A k \in 1..6 : FromCheck(call.ret[1], k) = SubCheck(k)
       /\ FromCheck(call.ret[1], 7) = <<>>
  /\ Returned("_run_dry_run") =>
       LET task == call.args.task
           findings == call.ret[1].findings
           policy == RunPolicyChecks(task.sql, config, task.dry[1].bytes_processed)
           partition == EnforcePartitionFilters(task.sql, task.refs,
                                                call.args.table_meta, config)
           n == Len(policy)
       IN /\ Len(findings) = n + Len(partition.findings)
          /\ SubSeq(findings, 1, n) = policy
          /\ SubSeq(findings, n + 1, Len(findings)) = partition.findings
          /\ \A i \in 1..n : CheckOrder(findings[i].code) < 7
          /\ \A i \in (n + 1)..Len(findings) : CheckOrder(findings[i].code) = 7
          /\ task.refs # <<>> =>
               LET tables == [i \in 1..(Len(findings) - n) |-> findings[n + i].table[1]]
                   IsReported(t) == \E i \in DOMAIN tables : tables[i] = t
               IN tables = SelectSeq(task.refs, IsReported)

\* a warning, a warning, an error, a warning: check order, not severity order
C20_Witness ==
  /\ Returned("run_policy_checks")
  /\ Len(call.ret[1]) = 4
  /\ call.ret[1][1].code = "BYTES_WARN" /\ call.ret[1][1].severity = "WARN"
  /\ call.ret[1][2].code = "SELECT_STAR" /\ call.ret[1][2].severity = "WARN"
  /\ call.ret[1][3].code = "MULTI_STATEMENT" /\ call.ret[1][3].severity = "ERROR"
  /\ call.ret[1][4].code = "DDL_DML" /\ call.ret[1][4].severity = "WARN"

(***************************************************************************)
(* run_policy_checks alone, on the texts and configurations of PolicyCalls *)
(***************************************************************************)
InitPolicy ==
  /\ InitAppState
  /\ config = LoadedConfig
  /\ call \in PolicyCalls

NextPolicy == ApplyRunPolicyChecks

SpecPolicy == InitPolicy /\ [][NextPolicy]_vars

\* the switch of config["policy"] that belongs to the k-th check; the bytes
\* check (k = 1) has none
Switch(k) ==
  LET policy == call.args.config.policy
  IN CASE k = 2 -> policy.warn_select_star
       [] k = 3 -> policy.warn_cross_join
       [] k = 4 -> policy.warn_suspect_join
       [] k = 5 -> policy.block_multi_statement
       [] k = 6 -> policy.warn_ddl_dml

\* what the k-th check finds in the text of the call, whatever the switches
Alone(k) ==
  CASE k = 2 -> CheckSelectStar(call.args.sql)
    [] k = 3 -> CheckCrossJoin(call.args.sql)
    [] k = 4 -> CheckSuspectJoin(call.args.sql)
    [] k = 6 -> CheckDdlDml(call.args.sql)

\* C21 as stated: in run_policy_checks every sub-check with a switch is gated
\* by it: with the switch off the check contributes no finding.
C21_AsStated ==
  Returned("run_policy_checks") =>
    \A k \in 2..6 : ~Switch(k) => FromCheck(call.ret[1], k) = <<>>

\* C21 as the code has it: select-star, cross-join, suspect-join and DDL/DML
\* are each gated by their own switch (off: no finding; on: what the check
\* finds in the text, whatever the other switches are); the bytes check has
\* no switch and always runs; the multi-statement check always runs and its
\* switch only selects the severity of its finding, ERROR when on, WARN when
\* off.
C21_Gating ==
  Returned("run_policy_checks") =>
    /\ \A k \in {2, 3, 4, 6} :
         FromCheck(call.ret[1], k) = IF Switch(k) THEN Alone(k) ELSE <<>>
    /\ FromCheck(call.ret[1], 1) =
         CheckBytes(call.args.bytes_processed, call.args.config.limits.warn_bytes,
                    call.args.config.limits.block_bytes)
    /\ LET multi == FromCheck(call.ret[1], 5)
       IN /\ Len(multi) = Len(CheckMultiStatement(call.args.sql, TRUE))
          /\ \A i \in DOMAIN multi :
               /\ multi[i].code = CheckMultiStatement(call.args.sql, TRUE)[i].code
               /\ multi[i].severity = IF Switch(5) THEN "ERROR" ELSE "WARN"

\* the cross-join switch alone is off: the cross join in the text is not
\* reported, the star, the join without condition and the second statement are
C21_Witness ==
  /\ Returned("run_policy_checks")
  /\ ~Switch(3) /\ Switch(2) /\ Switch(4) /\ Switch(5) /\ Switch(6)
  /\ Alone(3) # <<>>
  /\ FromCheck(call.ret[1], 3) = <<>>
  /\ Len(FromCheck(call.ret[1], 2)) = 1
  /\ Len(FromCheck(call.ret[1], 4)) = 1
  /\ Len(FromCheck(call.ret[1], 5)) = 1

(***************************************************************************)
(* The metadata cache and extract_partition_info as functions: one call    *)
(* per behaviour, its arguments drawn from the sets below.                 *)
(***************************************************************************)
SchemaVersions == {1, 2}

\* descriptors an in-memory map may hold: every combination of the four
\* fields
CacheDescriptors ==
  { TableMeta(partition_type, partition_key, ingestion_time, last_seen_ts) :
      partition_type \in {"none", "time", "range"},
      partition_key \in {<<>>, <<ColEventDate>>},
      ingestion_time \in BOOLEAN,
      last_seen_ts \in {"", NowTs} }

CacheMaps == UNION {[D -> CacheDescriptors] : D \in SUBSET Tables}

\* save() of one cache, then load() into a fresh one
SaveLoadCalls ==
  { [fn |-> "save_load",
     args |-> [tables |-> tables, saved_version |-> saved, schema_version |-> expected],
     ret |-> <<>>] :
      tables \in CacheMaps, saved \in SchemaVersions, expected \in SchemaVersions }

\* the members a descriptor object of a file may carry: each of the four
\* present or missing
EntryObjects ==
  { JsonObject(partition_type \o partition_key \o ingestion_time \o last_seen_ts) :
      partition_type \in {<<>>} \cup {<<Member("partition_type", JsonString(v))>> :
                                         v \in {"none", "time"}},
      partition_key \in {<<>>, <<Member("partition_key", JsonNull)>>,
                         <<Member("partition_key", JsonText(ColEventDate))>>},
      ingestion_time \in {<<>>} \cup {<<Member("ingestion_time", JsonBool(v))>> :
                                         v \in BOOLEAN},
      last_seen_ts \in {<<>>, <<Member("last_seen_ts", JsonString(NowTs))>>} }

EntryValues == EntryObjects \cup {JsonNull, JsonInt(0)}

\* the member lists of "tables": distinct table keys in any file order
TableMembers ==
  {<<>>}
  \cup {<<Member(k, v)>> : k \in Tables, v \in EntryValues}
  \cup UNION { {<<Member(k1, v1), Member(k2, v2)>> :
                   k2 \in Tables \ {k1}, v1 \in EntryValues, v2 \in EntryValues} :
                 k1 \in Tables }

\* JSON objects a file may hold: "schema_version" and "tables" present or
\* missing, of the expected JSON type or of another
FileObjects ==
  { JsonObject(schema_version \o tables) :
      schema_version \in {<<>>, <<Member("schema_version", JsonInt(1))>>,
                          <<Member("schema_version", JsonInt(2))>>,
                          <<Member("schema_version", JsonBool(TRUE))>>,
                          <<Member("schema_version", JsonString("1"))>>},
      tables \in {<<>>, <<Member("tables", JsonNull)>>,
                  <<Member("tables", JsonArray(<<>>))>>}
                 \cup {<<Member("tables", JsonObject(members))>> :
                         members \in TableMembers} }

FileStates ==
  {FileAbsent, FileUnreadable}
  \cup {FileHolding(data) : data \in {JsonNull, JsonInt(1), JsonArray(<<>>), JsonString("")}}
  \cup {FileHolding(data) : data \in FileObjects}

\* load() at construction (app.py line 97): the map is empty, the expected
\* version is the configured one
LoadCalls ==
  { [fn |-> "load", args |-> [file |-> file, schema_version |-> LoadedConfig.cache.schema_version],
     ret |-> <<>>] : file \in FileStates }

\* the tables the metadata collaborator returns: not partitioned, partitioned
\* by ingestion time or by a column, or range-partitioned by a column
TableObjects ==
  { TableObject(<<>>, <<>>),
    TableObject(<<[field |-> <<>>]>>, <<>>),
    TableObject(<<[field |-> <<<<>>>>]>>, <<>>),
    TableObject(<<[field |-> <<ColEventDate>>]>>, <<>>),
    TableObject(<<>>, <<[field |-> <<ColEventDate>>]>>) }

ExtractCalls ==
  { [fn |-> "extract_partition_info", args |-> [table |-> table], ret |-> <<>>] :
      table \in TableObjects }

\* a table name that does not split into project, dataset and table
TableNoProject == <<"d", ".", "t">>

\* what fetch_table_metadata does for a table: it raises, or returns a table
\* partitioned by ingestion time or by a column
FetchResults ==
  { <<>>,
    <<TableObject(<<[field |-> <<>>]>>, <<>>)>>,
    <<TableObject(<<[field |-> <<ColEventDate>>]>>, <<>>)>> }

\* what save() at the end of the fill does to the file: it writes it, or it
\* raises and leaves the file as it was or truncated
SaveOutcomes == {"written", "untouched", "truncated"}

EnsureCalls ==
  { [fn |-> "_ensure_table_metadata",
     args |-> [tables |-> tables, fetched |-> fetched, cache |-> cache, save |-> save],
     ret |-> <<>>] :
      tables \in SeqsUpTo(Tables \cup {TableNoProject}, MaxRefs),
      fetched \in [Tables \cup {TableNoProject} -> FetchResults],
      cache \in MetaMaps,
      save \in SaveOutcomes }

InitCache ==
  /\ InitAppState
  /\ config = LoadedConfig
  /\ \/ call \in SaveLoadCalls
     \/ call \in LoadCalls
     \/ call \in ExtractCalls
     \/ call \in EnsureCalls

\* cache.py lines 45-58 then 27-43: save() writes the file, load() of a
\* fresh cache reads it
ApplySaveLoad ==
  /\ Pending("save_load")
  /\ LET file == FileHolding(CacheSave(call.args.tables, call.args.saved_version))
     IN Return([file |-> file,
                loaded |-> CacheLoad(<<>>, file, call.args.schema_version)])

ApplyLoad ==
  /\ Pending("load")
  /\ Return(CacheLoad(<<>>, call.args.file, call.args.schema_version))

ApplyExtractPartitionInfo ==
  /\ Pending("extract_partition_info")
  /\ Return(ExtractPartitionInfo(call.args.table))

\* app.py lines 254-258: the file after the fill; save() is called when the
\* cache was updated and an exception it raises is logged
FileAfterFill(fill, file, save) ==
  IF ~fill.cache_updated \/ save = "untouched" THEN file
  ELSE IF save = "truncated" THEN FileUnreadable
  ELSE SavedCache(fill.tables)

\* _ensure_table_metadata, lines 234-262, on a cache that was saved before
ApplyEnsureTableMetadata ==
  /\ Pending("_ensure_table_metadata")
  /\ LET fill == EnsureTableMetadata(call.args.tables, call.args.fetched, call.args.cache)
     IN Return([result |-> fill.result, tables |-> fill.tables,
                file |-> FileAfterFill(fill, SavedCache(call.args.cache), call.args.save)])

NextCache ==
  \/ ApplySaveLoad
  \/ ApplyLoad
  \/ ApplyExtractPartitionInfo
  \/ ApplyEnsureTableMetadata

SpecCache == InitCache /\ [][NextCache]_vars

\* C22: save() followed by load() into a fresh cache expecting the same
\* schema version gives a map equal to the saved one, all four fields of
\* every descriptor included; load() expecting another schema version gives
\* the empty map.
C22_RoundTrip ==
  Returned("save_load") =>
    LET loaded == call.ret[1].loaded
    IN /\ ~loaded.raised
       /\ IF call.args.saved_version = call.args.schema_version
            THEN /\ DOMAIN loaded.tables = DOMAIN call.args.tables
                 /\ \A key \in DOMAIN loaded.tables :
                      /\ loaded.tables[key].partition_type = call.args.tables[key].partition_type
                      /\ loaded.tables[key].partition_key = call.args.tables[key].partition_key
                      /\ loaded.tables[key].ingestion_time = call.args.tables[key].ingestion_time
                      /\ loaded.tables[key].last_seen_ts = call.args.tables[key].last_seen_ts
            ELSE DOMAIN loaded.tables = {}

\* a map of two tables whose descriptors differ in every field came back
\* from the file
C22_Witness ==
  /\ Returned("save_load")
  /\ call.args.saved_version = call.args.schema_version
  /\ DOMAIN call.args.tables = Tables
  /\ call.args.tables[TableT] = TableMeta("time", <<ColEventDate>>, TRUE, NowTs)
  /\ call.args.tables[TableU] = TableMeta("none", <<>>, FALSE, "")
  /\ DOMAIN call.ret[1].loaded.tables = Tables

\* a well-formed cache object: a JSON object whose "tables", when present,
\* is an object of objects
WellFormedCacheObject(data) ==
  /\ data.t = "object"
  /\ LET tables == JsonGet(data, "tables", JsonObject(<<>>))
     IN /\ tables.t = "object"
        /\ \A i \in DOMAIN tables.members : tables.members[i].value.t = "object"

\* C23: load() does not fail and leaves the (empty) map as it was whenever
\* the file is absent, cannot be read or parsed, does not hold a well-formed
\* cache object, or is stamped with another schema version than the expected
\* one.
C23_LoadAsStated ==
  Returned("load") =>
    LET file == call.args.file
        unusable ==
          \/ file.kind \in {"absent", "unreadable"}
          \/ ~WellFormedCacheObject(file.data)
          \/ ~JsonEqualsInt(JsonGet(file.data, "schema_version", JsonNull),
                            call.args.schema_version)
    IN unusable => ~call.ret[1].raised /\ DOMAIN call.ret[1].tables = {}

\* the invariant of a descriptor: a partition key exactly when the table is
\* partitioned, ingestion time only with time partitioning
DescriptorInvariant(meta) ==
  /\ meta.partition_key # <<>> <=> meta.partition_type # "none"
  /\ meta.ingestion_time => meta.partition_type = "time"

\* C30: every descriptor that enters the cache, built by
\* extract_partition_info from fetched table metadata or by load() from the
\* cache file, has a partition key iff its partition type is not none, and
\* is marked ingestion-time only when its type is time.
C30_DescriptorsAsStated ==
  /\ Returned("extract_partition_info") => DescriptorInvariant(call.ret[1])
  /\ Returned("load") =>
       \A key \in DOMAIN call.ret[1].tables : DescriptorInvariant(call.ret[1].tables[key])

(***************************************************************************)
(* One invocation of 'refresh metadata' followed through: the application  *)
(* runs as under Spec up to the invocation; after it the runs in flight    *)
(* and the run it scheduled proceed, with no further edit, re-estimate,    *)
(* review or refresh, so that the runs begun before and after the          *)
(* invocation can be told apart: after it, a debounced run that is not     *)
(* cancelled is the run the refresh scheduled.                             *)
(***************************************************************************)
RefreshCall == [fn |-> "action_refresh_meta", args |-> <<>>, ret |-> <<>>]

InitRefresh ==
  /\ InitAppState
  /\ config \in InitialConfigs
  /\ call = RefreshCall

BeforeRefresh == Pending("action_refresh_meta") /\ Next

ApplyRefreshMeta ==
  /\ Pending("action_refresh_meta")
  /\ RefreshMeta
  /\ call' = [call EXCEPT !.ret = <<"None">>]

\* the tasks that exist after the invocation proceed
AfterRefresh ==
  /\ Returned("action_refresh_meta")
  /\ \E t \in DOMAIN tasks :
       \/ Wake(t)
       \/ \E outcome \in DryRunOutcomes : DryRunReturn(t, outcome)
       \/ \E fetched \in [SeqRange(tasks[t].refs) -> FetchOutcomes] : FillDone(t, fetched)

NextRefresh ==
  \/ BeforeRefresh
  \/ ApplyRefreshMeta
  \/ AfterRefresh

SpecRefresh == InitRefresh /\ [][NextRefresh]_vars

\* the run the refresh scheduled, among the tasks after the invocation
IsNextRun(task) == task.kind = "debounce" /\ task.pc # "cancelled"

\* C24: 'refresh metadata' empties the cache map and saves the empty map in
\* the same step, and the next estimation run fetches every table it
\* references: when the run the refresh scheduled comes to its metadata
\* fill, the cache holds none of its tables, whatever run was in its fill
\* when the refresh was invoked.
C24_RefreshAsStated ==
  [][/\ ApplyRefreshMeta => cacheTables' = <<>> /\ cacheFile' = SavedCache(<<>>)
     /\ Returned("action_refresh_meta") =>
          \A t \in DOMAIN tasks :
            /\ IsNextRun(tasks[t])
            /\ \E fetched \in [SeqRange(tasks[t].refs) -> FetchOutcomes] : FillDone(t, fetched)
            => \A i \in DOMAIN tasks[t].refs : tasks[t].refs[i] \notin DOMAIN cacheTables
    ]_vars

(***************************************************************************)
(* The metadata cache under the scheduler, checked under Spec.             *)
(***************************************************************************)
\* task t finishes its metadata fill in this step
FillEnds(t) == \E fetched \in [SeqRange(tasks[t].refs) -> FetchOutcomes] : FillDone(t, fetched)

\* C25: the cache has a single writer: at most one run is in its metadata
\* fill at a time, the cache is not cleared and saved by 'refresh metadata'
\* while a fill is running, and the fill of a cancelled run changes neither
\* the cache map nor its file.
C25_SingleWriterAsStated ==
  [][/\ Cardinality(Fills(tasks')) <= 1
     /\ ActionRefreshMeta => Fills(tasks) = {}
     /\ \A t \in DOMAIN tasks :
          tasks[t].pc = "cancelled" /\ FillEnds(t) => UNCHANGED <<cacheTables, cacheFile>>
    ]_vars

\* the descriptor the fill builds from a fetched table
Fetched(table_obj) == [ExtractPartitionInfo(table_obj) EXCEPT !.last_seen_ts = NowTs]

\* C26: in the metadata fill a table whose descriptor cannot be obtained (the
\* fetch raises, or the name is not project.dataset.table) does not end the
\* fill: every table of the list that is cached or can be fetched is in the
\* returned map and in the cache, the failing table is in neither, the
\* entries the cache held stay, and the function returns whether or not the
\* save at its end raises; the file is written only by a save that
\* succeeds.
C26_FillSurvivesFailures ==
  Returned("_ensure_table_metadata") =>
    LET tables == call.args.tables
        fetched == call.args.fetched
        cache == call.args.cache
        fill == call.ret[1]
    IN /\ \A i \in DOMAIN tables :
            LET table == tables[i]
            IN IF table \in DOMAIN cache
                 THEN /\ table \in DOMAIN fill.result
                      /\ fill.result[table] = cache[table]
               ELSE IF SplitsInThree(table) /\ fetched[table] # <<>>
                 THEN /\ table \in DOMAIN fill.result
                      /\ table \in DOMAIN fill.tables
                      /\ fill.result[table] = Fetched(fetched[table][1])
                      /\ fill.tables[table] = Fetched(fetched[table][1])
               ELSE /\ table \notin DOMAIN fill.result
                    /\ table \notin DOMAIN fill.tables
       /\ DOMAIN fill.result \subseteq SeqRange(tables)
       /\ DOMAIN fill.tables \subseteq DOMAIN cache \cup SeqRange(tables)
       /\ \A table \in DOMAIN cache : fill.tables[table] = cache[table]
       /\ call.args.save # "written" => fill.file # SavedCache(fill.tables) \/ fill.tables = cache

\* the fetch of the first table raised, the second was fetched and cached,
\* and the save failed
C26_Witness ==
  /\ Returned("_ensure_table_metadata")
  /\ call.args.tables = <<TableT, TableU>>
  /\ call.args.cache = <<>>
  /\ call.args.fetched[TableT] = <<>>
  /\ call.args.fetched[TableU] # <<>>
  /\ call.args.save = "truncated"
  /\ DOMAIN call.ret[1].result = {TableU}
  /\ DOMAIN call.ret[1].tables = {TableU}
  /\ call.ret[1].file = FileUnreadable

\* the state st holds what the run of task computed, the descriptors being
\* those its fill returned for some outcome of the fetches
StemsFrom(st, task) ==
  /\ st.sql = task.sql
  /\ st.bytes_processed = task.dry[1].bytes_processed
  /\ st.referenced_tables = task.refs
  /\ \E fetched \in [SeqRange(task.refs) -> FetchOutcomes] :
       LET table_meta == EnsureTableMetadata(task.refs, fetched, cacheTables).result
           partition == IF config.policy.enforce_partition_filter
                          THEN EnforcePartitionFilters(task.sql, task.refs, table_meta, config)
                          ELSE [findings |-> <<>>, summary |-> <<>>]
       IN /\ st.findings = PolicyChecksOnce[task.sql][config][st.bytes_processed]
                             \o partition.findings
          /\ st.partition_summary = partition.summary

\* the step publishes the state of a run that got through its dry-run and
\* its fill
Publishes ==
  \E t \in DOMAIN tasks :
    /\ tasks[t].thread = "meta"
    /\ tasks[t].pc # "cancelled"
    /\ Len(lastDryRun') = 1
    /\ StemsFrom(lastDryRun'[1], tasks[t])

\* the step writes the unknown state for the SQL of a run whose dry-run
\* raised
WritesUnknown ==
  \E t \in DOMAIN tasks :
    /\ tasks[t].thread = "dryrun"
    /\ lastDryRun' = <<[sql |-> tasks[t].sql, bytes_processed |-> <<>>,
                        referenced_tables |-> <<>>, findings |-> <<>>,
                        partition_summary |-> <<>>]>>

\* C27 as stated: _last_dry_run is written only by the publish step of a
\* run that completed, as one record whose fields all stem from that run.
C27_PublishOnlyAsStated ==
  [][lastDryRun' # lastDryRun => Publishes]_vars

\* C27: _last_dry_run is only ever replaced as a whole record, by the
\* publish step of a run that got through its dry-run and its fill, whose
\* SQL, bytes, tables, findings and summary then all stem from that run, or
\* by the failure branch of a run whose dry-run raised, which writes the
\* unknown state for that run's SQL.
C27_WholeRecordOfOneRun ==
  [][lastDryRun' # lastDryRun => Publishes \/ WritesUnknown]_vars

\* a run has published what it computed for the SQL it captured, and the
\* editor holds another text by now
C27_Witness ==
  /\ Computed(lastDryRun)
  /\ lastDryRun[1].sql # editorText
  /\ lastDryRun[1].referenced_tables # <<>>
  /\ lastDryRun[1].partition_summary # <<>>

\* lines 204-206 for the run of task: the tables of the dry-run, or those
\* found in the SQL when it reported none
TablesOf(task) ==
  IF task.dry[1].referenced_tables # <<>> THEN task.dry[1].referenced_tables
  ELSE ExtractTablesOnce[task.sql][defaultProject]

\* what one run holds at each stage
StageOrder(ts) ==
  \A i \in DOMAIN ts :
    /\ ts[i].thread = "dryrun" => ts[i].dry = <<>> /\ ts[i].refs = <<>>
    /\ ts[i].thread = "meta" =>
         /\ ts[i].dry # <<>>
         /\ ts[i].dry[1].ok
         /\ ts[i].refs = TablesOf(ts[i])

\* C28: one run goes through dry-run call, table extraction, metadata fill
\* and publication in this order and through each once.  A run in its
\* dry-run call holds no result and no tables; a run enters its fill only
\* from its dry-run call, with a result that succeeded, the live revision
\* equal to its own and the tables extracted from that result; a dry-run call
\* is never issued by a run that has been in its fill; the cache map and the
\* file are written only by 'refresh metadata', which empties the map, and
\* by a step that ends a fill, which leaves the entries the cache held as
\* they were and adds only tables of that run; and a computed state is
\* published only by a step that ends a fill, for the SQL, the bytes and the
\* tables of that run.
C28_PipelineOrder ==
  [][/\ StageOrder(tasks')
     /\ \A j \in Fills(tasks') :
          \E i \in DOMAIN tasks :
            /\ tasks[i].kind = tasks'[j].kind
            /\ tasks[i].sql = tasks'[j].sql
            /\ tasks[i].revision = tasks'[j].revision
            /\ \/ /\ tasks[i].thread = "meta"
                  /\ tasks[i].dry = tasks'[j].dry
                  /\ tasks[i].refs = tasks'[j].refs
               \/ /\ tasks[i].thread = "dryrun"
                  /\ tasks[i].revision = revision
                  /\ tasks'[j].pc = "meta"
     /\ \A j \in DOMAIN tasks' :
          tasks'[j].thread = "dryrun" =>
            \/ \E i \in DOMAIN tasks : tasks[i] = tasks'[j]
            \/ \E i \in Waits(tasks) : tasks[i].revision = tasks'[j].revision
            \/ created' = created + 1 /\ j = Len(tasks') /\ tasks'[j].kind = "review"
     /\ cacheTables' # cacheTables \/ cacheFile' # cacheFile =>
          \/ /\ created' = created + 1
             /\ cacheTables' = <<>>
          \/ /\ Cardinality(Fills(tasks')) = Cardinality(Fills(tasks)) - 1
             /\ \A table \in DOMAIN cacheTables :
                  /\ table \in DOMAIN cacheTables'
                  /\ cacheTables'[table] = cacheTables[table]
             /\ \E t \in Fills(tasks) :
                  DOMAIN cacheTables' \subseteq DOMAIN cacheTables \cup SeqRange(tasks[t].refs)
     /\ lastDryRun' # lastDryRun /\ Computed(lastDryRun') =>
          /\ Cardinality(Fills(tasks')) = Cardinality(Fills(tasks)) - 1
          /\ \E t \in Fills(tasks) :
               /\ lastDryRun'[1].sql = tasks[t].sql
               /\ lastDryRun'[1].bytes_processed = tasks[t].dry[1].bytes_processed
               /\ lastDryRun'[1].referenced_tables = tasks[t].refs
    ]_vars

\* a run went through all stages: its tables are those the dry-run
\* reported, its fill fetched and cached the descriptor and saved the cache,
\* and the published summary holds the line enforcement made of it
C28_Witness ==
  /\ Computed(lastDryRun)
  /\ lastDryRun[1].referenced_tables = <<TableT>>
  /\ TableT \in DOMAIN cacheTables
  /\ cacheFile = SavedCache(cacheTables)
  /\ lastDryRun[1].partition_summary # <<>>
  /\ tasks = <<>>

(***************************************************************************)
(* The referenced tables of a published state, checked under SpecChecks.   *)
(***************************************************************************)
NoDuplicates(xs) == \A i, j \in DOMAIN xs : xs[i] = xs[j] => i = j

FirstIndexOf(xs, x) == Least({i \in DOMAIN xs : xs[i] = x})

\* ys holds the elements of xs once each, in the order of their first
\* occurrences in xs
IsOrderedSetOf(ys, xs) ==
  /\ NoDuplicates(ys)
  /\ SeqRange(ys) = SeqRange(xs)
  /\ \A i, j \in DOMAIN ys : i < j => FirstIndexOf(xs, ys[i]) < FirstIndexOf(xs, ys[j])

\* the summary lines for table t
LinesFor(summary, t) ==
  {i \in DOMAIN summary :
     /\ Len(summary[i]) > Len(t)
     /\ SubSeq(summary[i], 1, Len(t) + 1) = t \o <<":">>}

\* C29: the referenced tables of a published state hold each table once, in
\* the order of first occurrence, when they are the tables the dry-run
\* reported and when they are found in the SQL text; and the state holds at
\* most one summary line and at most one partition finding per table.
C29_TablesAsStated ==
  /\ Returned("_extract_tables") => NoDuplicates(call.ret[1])
  /\ Returned("_run_dry_run") =>
       LET st == call.ret[1]
           reported == call.args.task.dry[1].referenced_tables
       IN /\ NoDuplicates(st.referenced_tables)
          /\ reported # <<>> => IsOrderedSetOf(st.referenced_tables, reported)
          /\ \A t \in Tables :
               /\ Cardinality(LinesFor(st.partition_summary, t)) <= 1
               /\ Cardinality(FindingsFor(st.findings, t)) <= 1

(***************************************************************************)
(* config.py: load_config.  The parsed configuration file and the          *)
(* configuration are held as the values yaml.safe_load returns, written    *)
(* with the constructors of the cache file: None, bool, int, str, list and *)
(* dict, a dict with its keys in order.  The byte limits are counted in    *)
(* GiB (107_374_182_400 bytes are 100 GiB, 536_870_912_000 are 500 GiB).   *)
(***************************************************************************)
DEFAULT_CONFIG ==
  JsonObject(<<
    Member("app", JsonObject(<<Member("default_project", JsonNull),
                               Member("default_location", JsonNull),
                               Member("preview_rows", JsonInt(50)),
                               Member("page_size", JsonInt(1000))>>)),
    Member("limits", JsonObject(<<Member("warn_bytes", JsonInt(100)),
                                  Member("block_bytes", JsonInt(500))>>)),
    Member("policy", JsonObject(<<Member("enforce_partition_filter", JsonBool(TRUE)),
                                  Member("block_multi_statement", JsonBool(TRUE)),
                                  Member("warn_select_star", JsonBool(TRUE)),
                                  Member("warn_cross_join", JsonBool(TRUE)),
                                  Member("warn_suspect_join", JsonBool(TRUE)),
                                  Member("warn_ddl_dml", JsonBool(TRUE)),
                                  Member("allow_execute_with_warnings", JsonBool(TRUE))>>)),
    Member("exceptions", JsonObject(<<Member("partition_exempt_tables", JsonArray(<<>>))>>)),
    Member("cache", JsonObject(<<Member("schema_version", JsonInt(1))>>)),
    Member("bq", JsonObject(<<Member("use_query_cache", JsonBool(FALSE)),
                              Member("labels",
                                     JsonObject(<<Member("app", JsonString("bq-guard")),
                                                  Member("env", JsonString("gce"))>>))>>)),
    Member("ui", JsonObject(<<Member("auto_estimate_debounce_ms", JsonInt(900)),
                              Member("show_left_settings_panel", JsonBool(FALSE))>>))>>)

\* d[key] = value on a dict: a new key goes last
JsonPut(object, key, value) ==
  LET at == {i \in DOMAIN object.members : object.members[i].key = key}
  IN IF at = {} THEN JsonObject(Append(object.members, Member(key, value)))
     ELSE JsonObject([i \in DOMAIN object.members |->
                        IF i \in at THEN Member(key, value) ELSE object.members[i]])

\* _deep_merge, lines 58-62: the loop over the items of override from index
\* i on
RECURSIVE DeepMergeFrom(_, _, _)
DeepMergeFrom(result, members, i) ==
  IF i > Len(members) THEN result
  ELSE LET key == members[i].key
           value == members[i].value
           mine == JsonGet(result, key, JsonNull)
       IN DeepMergeFrom(JsonPut(result, key,
                                IF value.t = "object" /\ mine.t = "object"
                                  THEN DeepMergeFrom(mine, value.members, 1)
                                  ELSE value),
                        members, i + 1)

\* _deep_merge, lines 56-63, of two dicts
DeepMerge(base, override) == DeepMergeFrom(base, override.members, 1)

\* isinstance(value, int): a bool is an int
IsInstanceInt(value) == value.t \in {"int", "bool"}

\* the int a value of type int or bool compares as
IntOf(value) == IF value.t = "bool" THEN (IF value.bool THEN 1 ELSE 0) ELSE value.int

EnsureInt(section, option, minimum) ==
  [style |-> "ensure", kind |-> "int", section |-> section, option |-> option,
   minimum |-> <<minimum>>]

EnsureBool(section, option) ==
  [style |-> "ensure", kind |-> "bool", section |-> section, option |-> option,
   minimum |-> <<>>]

Inline(kind, section, option, minimum) ==
  [style |-> "inline", kind |-> kind, section |-> section, option |-> option,
   minimum |-> minimum]

\* _validate_config, lines 102-139: the checks in the order they run
ValidationSteps ==
  <<EnsureInt("app", "preview_rows", 1),
    EnsureInt("app", "page_size", 1),
    EnsureInt("limits", "warn_bytes", 0),
    EnsureInt("limits", "block_bytes", 0),
    EnsureInt("cache", "schema_version", 1),
    EnsureBool("policy", "enforce_partition_filter"),
    EnsureBool("policy", "block_multi_statement"),
    EnsureBool("policy", "warn_select_star"),
    EnsureBool("policy", "warn_cross_join"),
    EnsureBool("policy", "warn_suspect_join"),
    EnsureBool("policy", "warn_ddl_dml"),
    EnsureBool("policy", "allow_execute_with_warnings"),
    Inline("int", "ui", "auto_estimate_debounce_ms", <<0>>),
    Inline("int", "app", "preview_rows", <<1>>),
    Inline("int", "app", "page_size", <<1>>),
    Inline("list", "exceptions", "partition_exempt_tables", <<>>),
    Inline("dict", "bq", "labels", <<>>)>>

\* the condition under which a check keeps the value
Accepts(step, value) ==
  CASE step.kind = "int" ->
         IsInstanceInt(value) /\ (step.minimum # <<>> => IntOf(value) >= step.minimum[1])
    [] step.kind = "bool" -> value.t = "bool"
    [] step.kind = "list" -> value.t = "array"
    [] step.kind = "dict" -> value.t = "object"

DottedName(step) == step.section \o "." \o step.option

\* lines 76, 83, 96 and 118-138: the warning of a check that replaces value
WarningOf(step, value) ==
  IF step.style = "inline" THEN "Invalid " \o DottedName(step) \o "; using default."
  ELSE IF step.kind = "int" /\ IsInstanceInt(value)
    THEN "Invalid value for " \o DottedName(step) \o "; using default."
  ELSE "Invalid type for " \o DottedName(step) \o "; using default."

\* DEFAULT_CONFIG[section][option]
DefaultOf(step) ==
  JsonGet(JsonGet(DEFAULT_CONFIG, step.section, JsonNull), step.option, JsonNull)

\* one check of _validate_config on the configuration of outcome: the
\* section is read with get(section, {}) and the option with get(option) of
\* what was read, which raises AttributeError on a section that is no dict
ValidateStep(outcome, step) ==
  LET section == JsonGet(outcome.config, step.section, JsonObject(<<>>))
      value == JsonGet(section, step.option, JsonNull)
  IN IF section.t # "object" THEN [outcome EXCEPT !.raised = TRUE]
     ELSE IF Accepts(step, value) THEN outcome
     ELSE [raised |-> FALSE,
           config |-> JsonPut(outcome.config, step.section,
                              JsonPut(section, step.option, DefaultOf(step))),
           warnings |-> Append(outcome.warnings, WarningOf(step, value))]

\* _validate_config, lines 66-141: the checks from index i on; the first
\* exception ends them
RECURSIVE ValidateFrom(_, _)
ValidateFrom(outcome, i) ==
  IF i > Len(ValidationSteps) \/ outcome.raised THEN outcome
  ELSE ValidateFrom(ValidateStep(outcome, ValidationSteps[i]), i + 1)

ValidateConfig(merged) ==
  ValidateFrom([raised |-> FALSE, config |-> merged, warnings |-> <<>>], 1)

\* load_config, lines 144-158: whether it raised, the configuration and the
\* warnings of the result, and the file afterwards.  An absent or unparsable
\* file and a file holding a falsy value count as {}; the merge of a value
\* that is no dict raises AttributeError; an absent file is written
LoadConfig(file) ==
  LET raw == IF file.kind # "json" \/ ~Truthy(file.data) THEN JsonObject(<<>>)
             ELSE file.data
  IN IF raw.t # "object"
       THEN [raised |-> TRUE, config |-> JsonNull, warnings |-> <<>>, file |-> file]
     ELSE LET outcome == ValidateConfig(DeepMerge(DEFAULT_CONFIG, raw))
          IN [raised |-> outcome.raised, config |-> outcome.config,
              warnings |-> outcome.warnings,
              file |-> IF file.kind = "absent" /\ ~outcome.raised
                         THEN FileHolding(outcome.config) ELSE file]

(***************************************************************************)
(* The configuration files load_config is applied to.                      *)
(***************************************************************************)
\* the values an option or a section is given in the file
OptionValues ==
  {JsonNull, JsonBool(TRUE), JsonBool(FALSE), JsonInt(-1), JsonInt(0), JsonInt(1),
   JsonInt(7), JsonString("x"), JsonArray(<<>>), JsonArray(<<JsonString("x")>>),
   JsonObject(<<>>)}

RecognizedOptions ==
  {<<ValidationSteps[i].section, ValidationSteps[i].option>> : i \in DOMAIN ValidationSteps}

\* files that set one option, files that give one section a value that is
\* no mapping of options, and files that set a byte limit and a policy switch
ConfigObjects ==
  {JsonObject(<<Member(o[1], JsonObject(<<Member(o[2], v)>>))>>) :
     o \in RecognizedOptions, v \in OptionValues}
  \cup {JsonObject(<<Member(o[1], v)>>) : o \in RecognizedOptions, v \in OptionValues}
  \cup {JsonObject(<<Member("limits", JsonObject(<<Member("warn_bytes", v)>>)),
                     Member("policy", JsonObject(<<Member("warn_select_star", w)>>))>>) :
          v \in OptionValues, w \in OptionValues}

ConfigFiles ==
  {FileAbsent, FileUnreadable}
  \cup {FileHolding(data) : data \in OptionValues}
  \cup {FileHolding(data) : data \in ConfigObjects}

LoadConfigCalls ==
  {[fn |-> "load_config", args |-> [file |-> file], ret |-> <<>>] : file \in ConfigFiles}

InitConfig ==
  /\ InitAppState
  /\ config = LoadedConfig
  /\ call \in LoadConfigCalls

ApplyLoadConfig ==
  /\ Pending("load_config")
  /\ Return(LoadConfig(call.args.file))

NextConfig == ApplyLoadConfig

SpecConfig == InitConfig /\ [][NextConfig]_vars

\* the value of an option in a configuration, None when it or its section
\* is missing or the section is no mapping
OptionIn(cfg, step) ==
  LET section == JsonGet(cfg, step.section, JsonNull)
  IN IF section.t # "object" THEN JsonNull ELSE JsonGet(section, step.option, JsonNull)

\* the configuration the file asks for: the defaults overridden by the file
Requested(file) ==
  IF file.kind = "json" /\ file.data.t = "object"
    THEN DeepMerge(DEFAULT_CONFIG, file.data) ELSE DEFAULT_CONFIG

Names(warning, step) ==
  warning \in {"Invalid " \o DottedName(step) \o "; using default.",
               "Invalid value for " \o DottedName(step) \o "; using default.",
               "Invalid type for " \o DottedName(step) \o "; using default."}

\* C31: load_config never raises, every recognized option of the result has
\* a valid value, and an option the file gives a value of the wrong type or
\* out of range, alone or by a section that is no mapping, has its default
\* and a warning naming it.
C31_LoadConfigAsStated ==
  Returned("load_config") =>
    LET result == call.ret[1]
    IN /\ ~result.raised
       /\ \A i \in DOMAIN ValidationSteps :
            LET step == ValidationSteps[i]
            IN /\ Accepts(step, OptionIn(result.config, step))
               /\ ~Accepts(step, OptionIn(Requested(call.args.file), step)) =>
                    /\ OptionIn(result.config, step) = DefaultOf(step)
                    /\ \E w \in DOMAIN result.warnings : Names(result.warnings[w], step)

(***************************************************************************)
(* app.py: the table extraction of _run_dry_run (lines 204-206) with       *)
(* _extract_tables (lines 264-275), applied to the lists a dry-run reports *)
(* and to texts that name tables.                                          *)
(***************************************************************************)
\* self._default_project: None, empty or a project
ProjectSettings == {<<>>, <<<<>>>>, <<<<"p">>>>}

TableSelectionCalls ==
  { [fn |-> "referenced_tables",
     args |-> [reported |-> reported, sql |-> sql, default_project |-> default_project],
     ret |-> <<>>] :
      reported \in SeqsUpTo(Tables, MaxRefs), sql \in Texts(TablePieces),
      default_project \in ProjectSettings }

InitTables ==
  /\ InitAppState
  /\ config = LoadedConfig
  /\ call \in TableSelectionCalls

ApplyTableSelection ==
  /\ Pending("referenced_tables")
  /\ Return(SelectTables(call.args.reported,
                         ExtractTables(call.args.sql, call.args.default_project)))

NextTables == ApplyTableSelection

SpecTables == InitTables /\ [][NextTables]_vars

\* the text part occurs in the text s
Occurs(part, s) ==
  \E p \in 0..(Len(s) - Len(part)) : SubSeq(s, p + 1, p + Len(part)) = part

\* the positions of the dots of s
DotsOf(s) == {i \in DOMAIN s : s[i] = "."}

\* s is a non-empty run of name characters
IsName(s) == s # <<>> /\ \A i \in DOMAIN s : IsNameChar(s[i])

\* s has the form project.dataset.table
IsFullyQualified(s) ==
  \E i, j \in DotsOf(s) :
    /\ i < j
    /\ IsName(SubSeq(s, 1, i - 1))
    /\ IsName(SubSeq(s, i + 1, j - 1))
    /\ IsName(SubSeq(s, j + 1, Len(s)))

\* s has the form dataset.table
IsTwoPart(s) ==
  \E i \in DotsOf(s) : IsName(SubSeq(s, 1, i - 1)) /\ IsName(SubSeq(s, i + 1, Len(s)))

\* the text holds a three-part name: two dots with names around and between
HasThreePartName(s) ==
  \E i, j \in DotsOf(s) :
    /\ i < j
    /\ i > 1 /\ IsNameChar(s[i - 1])
    /\ IsName(SubSeq(s, i + 1, j - 1))
    /\ j < Len(s) /\ IsNameChar(s[j + 1])

\* C32: the tables of a run are the ones the dry-run reported whenever it
\* reported some, and the ones the regex extraction finds in the SQL text
\* exactly when it reported none; the extraction returns names of the form
\* project.dataset.table: three-part names of the text when it holds one,
\* and otherwise its two-part names qualified with the default project.
C32_TableExtraction ==
  Returned("referenced_tables") =>
    LET reported == call.args.reported
        sql == call.args.sql
        project == call.args.default_project
        extracted == ExtractTables(sql, project)
    IN /\ reported # <<>> => call.ret[1] = reported
       /\ reported = <<>> => call.ret[1] = extracted
       /\ \A i \in DOMAIN extracted :
            /\ IsFullyQualified(extracted[i])
            /\ IF HasThreePartName(sql) THEN Occurs(extracted[i], sql)
               ELSE /\ project # <<>>
                    /\ \E rest \in {SubSeq(extracted[i], k, Len(extracted[i])) :
                                      k \in DOMAIN extracted[i]} :
                         /\ extracted[i] = project[1] \o <<".">> \o rest
                         /\ IsTwoPart(rest)
                         /\ Occurs(rest, sql)
       /\ HasThreePartName(sql) => extracted # <<>>

\* the dry-run reported no table and the text holds only a two-part name,
\* which comes back qualified with the default project
C32_Witness ==
  /\ Returned("referenced_tables")
  /\ call.args.reported = <<>>
  /\ ~HasThreePartName(call.args.sql)
  /\ call.ret[1] = <<TableT>>

(***************************************************************************)
(* app.py: _ensure_table_metadata (lines 234-262) step by step, in the     *)
(* worker threads of two runs whose fills overlap (asyncio.to_thread,      *)
(* line 207; under Spec two runs can be in their fill at once).  The       *)
(* threads share self._cache; a thread keeps i, result and cache_updated.  *)
(***************************************************************************)
\* TableMetaCache.now_ts() of the successive fetches
Stamps == <<"t1", "t2", "t3", "t4", "t5", "t6", "t7", "t8">>

\* a thread at the head of its loop over tables, with counters of what it
\* has done: lookups that missed, calls of fetch_table_metadata, entries
\* stored and calls of save()
FillThread(tables) ==
  [tables |-> tables, i |-> 1, pc |-> "loop", result |-> <<>>, cache_updated |-> FALSE,
   misses |-> 0, fetches |-> 0, stored |-> 0, saves |-> 0]

\* the cache before the fills: empty, or holding p.d.t from an earlier run
EarlierCaches ==
  {<<>>, DictPut(<<>>, TableT, TableMeta("time", <<K_PARTITIONDATE>>, TRUE, "t0"))}

InitFill ==
  /\ revision = 0
  /\ editorText = <<>>
  /\ config = LoadedConfig
  /\ defaultProject \in DefaultProjects
  /\ defaultLocation = LocationFallback
  /\ estimateTask = 0
  /\ tasks = <<>>
  /\ created = 0
  /\ lastDryRun = <<>>
  /\ cacheTables \in EarlierCaches
  /\ cacheFile = SavedCache(cacheTables)
  /\ history = <<>>
  /\ screens = <<>>
  /\ lastJob = <<>>
  /\ publishedRev = <<>>
  /\ \E first \in SeqsUpTo(Tables, MaxRefs), second \in SeqsUpTo(Tables, MaxRefs) :
       call = [fn |-> "_ensure_table_metadata", args |-> <<first, second>>, ret |-> <<>>,
               threads |-> <<FillThread(first), FillThread(second)>>, fetched |-> 0]

FillFrame ==
  UNCHANGED <<revision, editorText, config, defaultProject, defaultLocation, estimateTask,
              tasks, created, lastDryRun, history, screens, lastJob, publishedRev>>

\* lines 239-243 and 254: the head of the loop and self._cache.get(table)
FillLookup(k) ==
  LET th == call.threads[k]
      cached == DictGet(cacheTables, th.tables[th.i])
  IN /\ th.pc = "loop"
     /\ call' = [call EXCEPT !.threads[k] =
                   IF th.i > Len(th.tables)
                     THEN [th EXCEPT !.pc = IF th.cache_updated THEN "save" ELSE "done"]
                   ELSE IF cached # <<>>
                     THEN [th EXCEPT !.result = DictPut(th.result, th.tables[th.i], cached[1]),
                                     !.i = th.i + 1]
                   ELSE [th EXCEPT !.pc = "fetch", !.misses = th.misses + 1]]
     /\ UNCHANGED <<cacheTables, cacheFile>>
     /\ FillFrame

\* lines 244-253: the split of the name, the fetch, which returns a table or
\* raises (<<>>), and the update of the cache
FillFetch(k, fetched) ==
  LET th == call.threads[k]
      table == th.tables[th.i]
      meta == [ExtractPartitionInfo(fetched[1]) EXCEPT
                 !.last_seen_ts = Stamps[call.fetched + 1]]
  IN /\ th.pc = "fetch"
     /\ call.fetched < Len(Stamps)
     /\ IF ~SplitsInThree(table)
          THEN /\ call' = [call EXCEPT !.threads[k] = [th EXCEPT !.pc = "loop", !.i = th.i + 1]]
               /\ UNCHANGED cacheTables
        ELSE IF fetched = <<>>
          THEN /\ call' = [call EXCEPT
                             !.threads[k] = [th EXCEPT !.pc = "loop", !.i = th.i + 1,
                                                       !.fetches = th.fetches + 1]]
               /\ UNCHANGED cacheTables
        ELSE /\ call' = [call EXCEPT
                           !.fetched = call.fetched + 1,
                           !.threads[k] =
                             [th EXCEPT !.pc = "loop", !.i = th.i + 1,
                                        !.fetches = th.fetches + 1,
                                        !.stored = th.stored + 1,
                                        !.cache_updated = TRUE,
                                        !.result = DictPut(th.result, table, meta)]]
             /\ cacheTables' = DictPut(cacheTables, table, meta)
     /\ UNCHANGED cacheFile
     /\ FillFrame

\* lines 254-259: save() of the whole map, which may raise
FillSave(k, save) ==
  LET th == call.threads[k]
  IN /\ th.pc = "save"
     /\ call' = [call EXCEPT !.threads[k] = [th EXCEPT !.pc = "done", !.saves = th.saves + 1]]
     /\ cacheFile' = CASE save = "written" -> SavedCache(cacheTables)
                       [] save = "untouched" -> cacheFile
                       [] save = "truncated" -> FileUnreadable
     /\ UNCHANGED cacheTables
     /\ FillFrame

NextFill ==
  \/ \E k \in {1, 2} : FillLookup(k)
  \/ \E k \in {1, 2} : \E fetched \in FetchOutcomes : FillFetch(k, fetched)
  \/ \E k \in {1, 2} : \E save \in SaveOutcomes : FillSave(k, save)

SpecFill == InitFill /\ [][NextFill]_vars

\* no entry of the cache map is removed or modified in this step
NoEntryChanges ==
  \A key \in DOMAIN cacheTables :
    key \in DOMAIN cacheTables' /\ cacheTables'[key] = cacheTables[key]

\* a finished fill that found every table in the cache fetched and stored
\* nothing and did not save; one that stored an entry saved exactly once
FillsAsStated ==
  \A k \in DOMAIN call.threads :
    LET th == call.threads[k]
    IN th.pc = "done" =>
         /\ th.misses = 0 => th.fetches = 0 /\ th.stored = 0 /\ th.saves = 0
         /\ th.stored > 0 => th.saves = 1

\* C33: while 'refresh metadata' is not pressed the cached keys only grow
\* and an entry once stored is never modified or removed; a fill whose
\* tables are all cache hits fetches nothing, leaves the map as it is and
\* does not save; a fill with a fetched miss saves exactly once, after the
\* loop.
C33_CacheAsStated == [][NoEntryChanges /\ FillsAsStated']_vars

(***************************************************************************)
(* The summary of enforce_partition_filters, checked under SpecPartition.  *)
(***************************************************************************)
\* the text s starts with the text prefix
StartsWith(s, prefix) == Len(s) >= Len(prefix) /\ SubSeq(s, 1, Len(prefix)) = prefix

\* line is a summary line of table, in one of the four forms
IsSummaryLineOf(line, table) ==
  \/ line \in {table \o LineExempt, table \o LineNonPartition, table \o LineOk}
  \/ StartsWith(line, table \o LineMissing)

\* C34: for a non-empty list of referenced tables the summary holds exactly
\* one line per referenced table, in the order of the list, each in one of
\* the four forms; there are as many findings as 'missing' lines, and every
\* finding is an ERROR PARTITION_MISSING that carries a referenced table,
\* whatever the descriptors are, one with a partition type, no ingestion
\* time and no partition key included.
C34_SummaryAsStated ==
  EnforceReturned /\ call.args.referenced_tables # <<>> =>
    LET refs == call.args.referenced_tables
        summary == call.ret[1].summary
        findings == call.ret[1].findings
    IN /\ Len(summary) = Len(refs)
       /\ \A i \in DOMAIN summary : i \in DOMAIN refs /\ IsSummaryLineOf(summary[i], refs[i])
       /\ Len(findings) =
            Cardinality({i \in DOMAIN summary :
                           \E table \in SeqRange(refs) :
                             StartsWith(summary[i], table \o LineMissing)})
       /\ \A i \in DOMAIN findings :
            /\ findings[i].severity = "ERROR"
            /\ findings[i].code = "PARTITION_MISSING"
            /\ findings[i].table # <<>>
            /\ findings[i].table[1] \in SeqRange(refs)

(***************************************************************************)
(* Runs started on a blank editor, checked under Spec.                     *)
(***************************************************************************)
\* the step starts no external call and writes nothing: the dry-run calls
\* and the metadata fills in flight are as many as before, and the published
\* state, the audit log and the cache are unchanged
Silent ==
  /\ Cardinality(InFlight(tasks')) = Cardinality(InFlight(tasks))
  /\ Cardinality(Fills(tasks')) = Cardinality(Fills(tasks))
  /\ UNCHANGED <<lastDryRun, publishedRev, history, cacheTables, cacheFile>>

\* C35: a run that starts while the editor is empty or holds only
\* whitespace, at the wake-up of the debounce wait or in a review, makes no
\* dry-run call and no metadata fetch, writes no audit record and leaves the
\* published state as it is.
C35_BlankRunIsSilent ==
  [][/\ \A t \in DOMAIN tasks :
          Wake(t) /\ WakeCheck(tasks[t].revision) /\ IsBlank(editorText) => Silent
     /\ ActionReview /\ IsBlank(editorText) => Silent
    ]_vars

\* a state computed for an earlier text is still the published one after the
\* editor was blanked and the run scheduled by that edit has woken and ended
C35_Witness ==
  /\ IsBlank(editorText)
  /\ revision >= 2
  /\ tasks = <<>>
  /\ Computed(lastDryRun)
  /\ ~IsBlank(lastDryRun[1].sql)

(***************************************************************************)
(* A review followed to its execution: the application as under Spec once  *)
(* a query has been typed and its debounced estimate has ended with a      *)
(* failed dry-run (OnTextAreaChanged, Wake, DryRunReturn from Init), with  *)
(* the edits, the runs, one review and the dialog steps that follow.       *)
(* created counts the tasks created from here on.                          *)
(***************************************************************************)
InitReview ==
  /\ revision = 1
  /\ editorText \in EditorTexts \ {<<" ">>}
  /\ config \in InitialConfigs
  /\ defaultProject \in DefaultProjects
  /\ defaultLocation = LocationFallback
  /\ estimateTask = 0
  /\ tasks = <<>>
  /\ created = 0
  /\ lastDryRun = <<DryRunState(editorText, <<>>, <<>>, <<>>, <<>>)>>
  /\ cacheTables = <<>>
  /\ cacheFile = FileAbsent
  /\ history = <<HistoryRecord(editorText, "DRYRUN_FAILED")>>
  /\ screens = <<>>
  /\ lastJob = <<>>
  /\ publishedRev = <<1>>
  /\ call = NoCall

\* the review of the scenario has not been asked for yet
NotYetReviewed ==
  /\ screens = <<>>
  /\ \A h \in DOMAIN history : history[h].status \notin {"REVIEWED", "BLOCKED"}
  /\ \A t \in DOMAIN tasks : tasks[t].kind # "review"

NextReview ==
  \/ \E text \in EditorTexts : OnTextAreaChanged(text)
  \/ /\ NotYetReviewed
     /\ ActionReview
  \/ \E t \in DOMAIN tasks : Wake(t)
  \/ \E t \in DOMAIN tasks : \E outcome \in DryRunOutcomes : DryRunReturn(t, outcome)
  \/ \E t \in DOMAIN tasks :
       \E fetched \in [SeqRange(tasks[t].refs) -> FetchOutcomes] : FillDone(t, fetched)
  \/ \E value \in TypedConfirmations : ReviewInputChanged(value)
  \/ ReviewPressClose
  \/ ReviewPressExecute
  \/ \E t \in DOMAIN tasks : \E ok \in BOOLEAN : ExecuteReturn(t, ok)
  \/ \E t \in DOMAIN tasks : \E ok \in BOOLEAN : ExecuteResult(t, ok)

SpecReview == InitReview /\ [][NextReview]_vars

\* the dialog was built from the state a review run publishes in this step:
\* its SQL is the text that run captured and handed to the dry-run
BuiltFromItsRun(modal) ==
  /\ lastDryRun' # <<>>
  /\ modal.sql = lastDryRun'[1].sql
  /\ modal.data.findings = lastDryRun'[1].findings
  /\ modal.data.bytes_processed = lastDryRun'[1].bytes_processed
  /\ \E t \in DOMAIN tasks :
       /\ tasks[t].kind = "review"
       /\ tasks[t].thread = "meta"
       /\ tasks[t].sql = modal.sql
       /\ tasks[t].dry[1].bytes_processed = modal.data.bytes_processed

\* the SQL of every execution was reviewed: the audit log holds a REVIEWED
\* record for it
ExecutionsWereReviewed ==
  \A t \in DOMAIN tasks :
    tasks[t].kind = "execute" =>
      \E h \in DOMAIN history :
        history[h].status = "REVIEWED" /\ history[h].sql = tasks[t].sql

\* C36: the SQL that Execute submits is the SQL of the state the review's
\* own run computed: a dialog is built from the state its run publishes, no
\* step changes the SQL, the findings or the estimate of an open dialog
\* (edits and newer published states included), and Execute is sent only for
\* findings without an ERROR and the confirmation phrase of the dialog's own
\* estimate, and submits the dialog's SQL.
C36_ExecutesReviewedSql ==
  [][/\ \A i \in DOMAIN screens :
          i \in DOMAIN screens' =>
            /\ screens'[i].sql = screens[i].sql
            /\ screens'[i].data = screens[i].data
            /\ screens'[i].allow_execute_with_warnings = screens[i].allow_execute_with_warnings
     /\ Len(screens') > Len(screens) => BuiltFromItsRun(screens'[Len(screens')])
     /\ ReviewPressExecute =>
          /\ ~HasSeverity(TopScreen.data.findings, "ERROR")
          /\ Strip(TopScreen.confirm_input) = Run \o TopScreen.data.bytes_human
          /\ tasks'[Len(tasks')].kind = "execute"
          /\ tasks'[Len(tasks')].sql = TopScreen.sql
     /\ ExecutionsWereReviewed'
    ]_vars

\* an execution is under way for the reviewed SQL while the editor holds
\* another text and a newer state, computed for that text, is the published
\* one
C36_Witness ==
  /\ \E t \in DOMAIN tasks :
       /\ tasks[t].kind = "execute"
       /\ tasks[t].sql # editorText
       /\ Computed(lastDryRun)
       /\ lastDryRun[1].sql = editorText
====
